---------------------------- MODULE Spec2Model ----------------------------
(***************************************************************************)
(* TikTokSage: the download queue coordinator (TikTokSageApp), the channel *)
(* enumerator (get_channel_videos), the worker threads (DownloadThread,    *)
(* VideoInfoThread), the history store (HistoryManager) and the config     *)
(* store (ConfigManager), modelled from the Python sources.                *)
(*                                                                         *)
(* These specifications share the module:                                  *)
(*   Spec        the coordinator on the GUI thread, its worker threads and *)
(*               the queued signals between them;                          *)
(*   SpecChannel one call of get_channel_videos;                           *)
(*   SpecJob     DownloadThreads, one after the other, with their          *)
(*               pause/resume/cancel callers and the download directory;   *)
(*   SpecWorkers one VideoInfoThread beside one DownloadThread;            *)
(*   SpecHistory HistoryManager, its file and its callers;                 *)
(*   SpecConfig  ConfigManager, its file and its callers;                  *)
(*   SpecCallers threads inside the methods of the two managers, one       *)
(*               statement at a time, with the managers' locks;            *)
(*   SpecLive and SpecChannelLive                                          *)
(*               Spec and SpecChannel with weak fairness of the steps the  *)
(*               program itself takes, for the liveness properties.        *)
(* Each specification leaves the other components' variables unchanged.    *)
(***************************************************************************)
EXTENDS Integers, Sequences, FiniteSets, TLC

\* ------------------------------------------------------------- bounds
\* DownloadThread objects created in one run of the coordinator.
MaxJobs == 3
\* Calls of queue_downloads in one run.
MaxEnqueues == 2
\* VideoInfoThread objects created in one run.
MaxAnalyses == 1

\* ------------------------------------------------------------- inputs
\* The videos the channel dialog lists, in list order.
ChannelVideos == <<"v1", "v2", "v3">>
ChannelUrl == "chan"
\* What the user may type into url_input: video URLs and the channel URL.
InputUrls == {"v1", ChannelUrl}
NoUrl == "none"
\* current_download = None
None == 0

\* The URL shapes start_download and analyze_video tell apart.
validate_tiktok_url(u) == u \in InputUrls
is_channel_url(u) == u = ChannelUrl

\* What the channel dialog can hand to queue_downloads: the coordinator never
\* looks into a URL, so the selections are taken as the non-empty prefixes of
\* the dialog's list.
QueueInputs == {SubSeq(ChannelVideos, 1, n) : n \in 1..Len(ChannelVideos)}

VARIABLES
    app,        \* the fields of TikTokSageApp
    threads,    \* the DownloadThread objects created so far, in creation order
    events,     \* signals posted to the GUI thread and not yet delivered (FIFO)
    info,       \* VideoInfoThread objects created by analyze_video
    ch,         \* one call of get_channel_videos: its locals and its subprocesses
    job,        \* one DownloadThread: its fields, its worker's position, its signals
    dir,        \* the download directory, as far as one sanitized title goes
    vi,         \* one VideoInfoThread: its fields, its worker's position, its signals
    hist,       \* HistoryManager: its class attributes, the history file, the clock
    cfg,        \* ConfigManager: its class attributes and the config file
    callers     \* threads inside the two managers, and the managers' locks

coordVars == <<app, threads, events, info>>

\* ------------------------------------------------- TikTokSageApp.__init__
AppInit ==
    [ download_queue      |-> <<>>,
      current_queue_index |-> 0,
      current_download    |-> None,
      channel_folder      |-> FALSE,
      is_analyzing        |-> FALSE,
      video_info          |-> FALSE,
      url_input           |-> NoUrl,
      enqueues            |-> 0,
      download_btn        |-> TRUE,
      analyze_btn         |-> TRUE,
      cancel_btn          |-> FALSE ]

World == [app |-> app, threads |-> threads, events |-> events]

\* A new DownloadThread, started. src, gen, idx and qlen record who started it:
\* start_download ("single") or download_next_from_queue ("queue", with the
\* number of the queue_downloads call, the index it was started for and the
\* length of the queue).
NewThread(url, src, gen, idx, qlen) ==
    [ url |-> url, src |-> src, gen |-> gen, idx |-> idx, qlen |-> qlen,
      running |-> TRUE, cancelled |-> FALSE,
      sig |-> "none",        \* the terminal signal run() has emitted
      handled |-> "no",      \* what the coordinator did with that signal
      recorded |-> NoUrl ]   \* the url of the history entry it caused

\* The terminal signals run() can still emit: exactly one of finished_signal
\* and error_signal, or none at all once cancel() has set the flag.
Outcomes(t) ==
    IF t.sig # "none" THEN {t.sig}
    ELSE IF t.cancelled THEN {"finished", "error", "none"}
    ELSE {"finished", "error"}

\* QThread.wait(): the caller blocks until run() has returned; what run() still
\* emits on the way is posted to the GUI thread's queue.
Wait(w, j, o) ==
    IF ~w.threads[j].running THEN w
    ELSE LET emits == w.threads[j].sig = "none" /\ o # "none" IN
         [w EXCEPT !.threads[j].running = FALSE,
                   !.threads[j].sig = IF emits THEN o ELSE @,
                   !.events = IF emits THEN Append(@, [kind |-> o, job |-> j]) ELSE @]

\* The outcomes a handler that may wait for current_download can meet.
WaitOutcomes(w) ==
    LET cd == w.app.current_download IN
    IF cd # None /\ w.threads[cd].running THEN Outcomes(w.threads[cd]) ELSE {"none"}

reset_download_controls(a) ==
    [a EXCEPT !.download_btn = TRUE, !.analyze_btn = TRUE,
              !.cancel_btn = FALSE, !.current_download = None]

download_next_from_queue(w, o) ==
    LET a == w.app IN
    IF a.current_queue_index >= Len(a.download_queue)
    THEN [w EXCEPT !.app = [reset_download_controls(@) EXCEPT !.channel_folder = FALSE]]
    ELSE LET cd == a.current_download
             w1 == IF cd # None /\ w.threads[cd].running THEN Wait(w, cd, o) ELSE w
             next_url == a.download_queue[a.current_queue_index + 1]
         IN [w1 EXCEPT !.threads = Append(@, NewThread(next_url, "queue", a.enqueues,
                                                        a.current_queue_index,
                                                        Len(a.download_queue))),
                       !.app.current_download = Len(w1.threads) + 1]

\* A queue_downloads that forgets to reset the index.
queue_downloads_keep_index(w, urls, o) ==
    IF urls = <<>> THEN w
    ELSE download_next_from_queue(
             [w EXCEPT !.app.download_queue = urls,
                       !.app.current_queue_index =
                           IF @ < Len(urls) THEN @ ELSE 0,
                       !.app.channel_folder = TRUE,
                       !.app.enqueues = @ + 1], o)

queue_downloads(w, urls, o) ==
    IF urls = <<>> THEN w
    ELSE download_next_from_queue(
             [w EXCEPT !.app.download_queue = urls,
                       !.app.current_queue_index = 0,
                       !.app.channel_folder = TRUE,
                       !.app.enqueues = @ + 1], o)

\* The slots of finished_signal and error_signal. Their message boxes
\* (the completion dialog, QMessageBox.critical) are taken to be closed before
\* the next queued signal is delivered: the event loop a modal dialog runs is
\* not modelled.
\* j is the sender of the signal being delivered.
on_download_finished(w, j, o) ==
    LET a  == w.app
        w1 == IF a.video_info THEN [w EXCEPT !.threads[j].recorded = a.url_input] ELSE w
    IN IF a.download_queue # <<>> /\ a.current_queue_index < Len(a.download_queue) - 1
       THEN download_next_from_queue(
                [w1 EXCEPT !.app.current_queue_index = @ + 1,
                           !.threads[j].handled = "advanced"], o)
       ELSE [w1 EXCEPT !.app = [reset_download_controls(@) EXCEPT
                                    !.download_queue = <<>>,
                                    !.current_queue_index = 0],
                       !.threads[j].handled = "completed"]

\* An on_download_error that stops the queue at the first failure.
on_download_error_abort(w, j, o) ==
    [w EXCEPT !.app = reset_download_controls(@),
              !.threads[j].handled = "surfaced"]

on_download_error(w, j, o) ==
    LET a == w.app IN
    IF a.download_queue # <<>> /\ a.current_queue_index < Len(a.download_queue) - 1
    THEN download_next_from_queue(
             [w EXCEPT !.app.current_queue_index = @ + 1,
                       !.threads[j].handled = "skipped"], o)
    ELSE [w EXCEPT !.app = reset_download_controls(@),
                   !.threads[j].handled = "surfaced"]

start_download(w) ==
    LET a == w.app IN
    IF ~validate_tiktok_url(a.url_input) \/ is_channel_url(a.url_input) THEN w
    ELSE [w EXCEPT !.threads = Append(@, NewThread(a.url_input, "single", 0, 0, 0)),
                   !.app.current_download = Len(w.threads) + 1,
                   !.app.download_btn = FALSE, !.app.analyze_btn = FALSE,
                   !.app.cancel_btn = TRUE]

cancel_download(w, o) ==
    LET cd == w.app.current_download IN
    IF cd = None THEN w
    ELSE LET w1 == [w EXCEPT !.threads[cd].cancelled = TRUE]
             w2 == Wait(w1, cd, o)
         IN [w2 EXCEPT !.app = reset_download_controls(@)]

\* The slots of VideoInfoThread's signals. analyze_video connects them, but (see
\* ClickAnalyzeVideo) never starts the thread, so no step of the coordinator
\* applies them.
on_video_info_received(a) == [a EXCEPT !.video_info = TRUE, !.download_btn = TRUE]

\* A message box only.
on_video_info_error(a) == a

on_video_info_finished(a) == [a EXCEPT !.is_analyzing = FALSE, !.analyze_btn = TRUE]

\* ------------------------------------------------------------ actions
Becomes(w) == app' = w.app /\ threads' = w.threads /\ events' = w.events

Room(w) == Len(w.threads) < MaxJobs

\* The user edits the URL field.
EditUrl ==
    /\ \E u \in InputUrls : u # app.url_input /\ app' = [app EXCEPT !.url_input = u]
    /\ UNCHANGED <<threads, events, info, ch, job, dir, vi, hist, cfg, callers>>

\* download_btn.clicked
ClickDownload ==
    /\ app.download_btn
    /\ validate_tiktok_url(app.url_input) /\ ~is_channel_url(app.url_input)
    /\ Room(World)
    /\ Becomes(start_download(World))
    /\ UNCHANGED <<info, ch, job, dir, vi, hist, cfg, callers>>

\* analyze_btn.clicked on a channel URL: the modal dialog returns the selection
\* and analyze_video hands it to queue_downloads.
ClickAnalyzeChannel ==
    /\ app.analyze_btn
    /\ is_channel_url(app.url_input)
    /\ app.enqueues < MaxEnqueues
    /\ Room(World)
    /\ \E urls \in QueueInputs, o \in WaitOutcomes(World) :
          Becomes(queue_downloads(World, urls, o))
    /\ UNCHANGED <<info, ch, job, dir, vi, hist, cfg, callers>>

\* analyze_btn.clicked on a video URL: analyze_video disables the button,
\* creates a VideoInfoThread and connects its three signals; connecting
\* progress_signal, which VideoInfoThread does not have, raises AttributeError
\* and the slot ends before start(): the thread never runs and none of the
\* on_video_info_* slots is ever called.
ClickAnalyzeVideo ==
    /\ app.analyze_btn
    /\ validate_tiktok_url(app.url_input) /\ ~is_channel_url(app.url_input)
    /\ info.created < MaxAnalyses
    /\ app' = [app EXCEPT !.is_analyzing = TRUE, !.analyze_btn = FALSE]
    /\ info' = [info EXCEPT !.created = @ + 1]
    /\ UNCHANGED <<threads, events, ch, job, dir, vi, hist, cfg, callers>>

\* cancel_btn.clicked
ClickCancel ==
    /\ app.cancel_btn
    /\ \E o \in WaitOutcomes([World EXCEPT
                 !.threads = IF app.current_download = None THEN @
                             ELSE [@ EXCEPT ![app.current_download].cancelled = TRUE]]) :
          Becomes(cancel_download(World, o))
    /\ UNCHANGED <<info, ch, job, dir, vi, hist, cfg, callers>>

\* DownloadThread.run emits its terminal signal (a queued connection).
ThreadEmit ==
    /\ \E j \in DOMAIN threads, s \in {"finished", "error"} :
          /\ threads[j].running /\ threads[j].sig = "none"
          /\ threads' = [threads EXCEPT ![j].sig = s]
          /\ events' = Append(events, [kind |-> s, job |-> j])
    /\ UNCHANGED <<app, info, ch, job, dir, vi, hist, cfg, callers>>

\* DownloadThread.run returns.
ThreadExit ==
    /\ \E j \in DOMAIN threads :
          /\ threads[j].running /\ threads[j].sig # "none"
          /\ threads' = [threads EXCEPT ![j].running = FALSE]
    /\ UNCHANGED <<app, events, info, ch, job, dir, vi, hist, cfg, callers>>

Delivered == [World EXCEPT !.events = Tail(@)]

DeliverFinished ==
    /\ events # <<>> /\ Head(events).kind = "finished"
    /\ LET w == Delivered IN
       /\ w.app.download_queue # <<>>
            /\ w.app.current_queue_index < Len(w.app.download_queue) - 1 => Room(w)
       /\ \E o \in WaitOutcomes(w) :
             Becomes(on_download_finished(w, Head(events).job, o))
    /\ UNCHANGED <<info, ch, job, dir, vi, hist, cfg, callers>>

DeliverError ==
    /\ events # <<>> /\ Head(events).kind = "error"
    /\ LET w == Delivered IN
       /\ w.app.download_queue # <<>>
            /\ w.app.current_queue_index < Len(w.app.download_queue) - 1 => Room(w)
       /\ \E o \in WaitOutcomes(w) :
             Becomes(on_download_error(w, Head(events).job, o))
    /\ UNCHANGED <<info, ch, job, dir, vi, hist, cfg, callers>>

CoordInit ==
    /\ app = AppInit
    /\ threads = <<>>
    /\ events = <<>>
    /\ info = [created |-> 0]

CoordNext ==
    \/ EditUrl
    \/ ClickDownload
    \/ ClickAnalyzeChannel
    \/ ClickAnalyzeVideo
    \/ ClickCancel
    \/ ThreadEmit
    \/ ThreadExit
    \/ DeliverFinished
    \/ DeliverError

vars == <<app, threads, events, info, ch, job, dir, vi, hist, cfg, callers>>

\* ======================================================= DownloadThread
\* Chunks response.iter_content yields.
MaxChunks == 2
\* Calls of pause(), resume() and cancel() made on one job.
MaxCalls == 3
\* max_retries of the session creation.
max_retries == 2
\* DownloadThread objects run one after the other into the same directory.
MaxDownloads == 3
\* Files of the title that may be in the directory before the first download.
MaxOldFiles == 2

\* The files <title><ext> (number 0) and <title>_<n><ext> (number n).
NoFile == -1
DirNew(old) ==
    [ files |-> old,        \* the numbers of the files that exist
      opens |-> <<>>,       \* every open(output_file, 'wb'): the file, what existed
      runs |-> 1 ]          \* DownloadThread objects started so far

\* Only <title>_1<ext> is tried when <title><ext> exists.
unique_filename_once(files) == IF 0 \in files THEN 1 ELSE 0

\* The loop `while output_file.exists()` with counter = 1, 2, ...
unique_filename(files) ==
    CHOOSE n \in 0..Cardinality(files) : n \notin files /\ \A m \in 0..(n - 1) : m \in files

\* What api.video(url) returns, as far as _download_async looks at it: the
\* object ("none" when it is falsy), its attribute video, and the attributes
\* downloadAddr and playAddr of that: missing, present without a URL (None or
\* the empty string), or a URL.
NoAttr == "no_attr"
NoAddr == ""
VideoDatas ==
    {[video |-> v, downloadAddr |-> NoAttr, playAddr |-> NoAttr] : v \in {"none", NoAttr}}
    \cup [video : {"obj"}, downloadAddr : {NoAttr, NoAddr, "download_addr_url"},
                          playAddr : {NoAttr, NoAddr, "play_addr_url"}]

\* download_url = None
NoDownloadUrl == "None"
\* hasattr(video_data, 'video') and hasattr(video_data.video, name)
hasattr(video_data, name) == video_data.video = "obj" /\ video_data[name] # NoAttr
\* The if/elif that picks the download url.
extract_download_url(video_data) ==
    IF hasattr(video_data, "downloadAddr") THEN video_data.downloadAddr
    ELSE IF hasattr(video_data, "playAddr") THEN video_data.playAddr
    ELSE NoDownloadUrl

\* DownloadThread.__init__ followed by start().
JobNew ==
    [ pc |-> "run",         \* run | mkdir | ytdlp | api_check | session | meta |
                            \* http | stream | finish | end
      paused |-> FALSE,
      cancelled |-> FALSE,
      process |-> None,
      attempt |-> 0,        \* of the session creation
      total_size |-> 0,     \* content-length, in units of one chunk: 0 unknown
      downloaded |-> 0,     \* units written
      chunks |-> 0,         \* chunks iter_content has yielded
      file |-> "none",      \* the output file: none | partial | complete
      output_file |-> NoFile,  \* the file the chunked path chose
      signals |-> <<>>,     \* every signal emitted, in order
      progress |-> <<>>,    \* the values progress_signal carried, in order
      steps |-> <<>>,       \* what the worker attempted, in order
      cancel_at |-> "never",  \* where the worker stood at the first cancel()
      calls |-> 0,
      raised |-> FALSE,     \* an exception left pause(), resume() or cancel()
      video_data |-> [video |-> "not_fetched", downloadAddr |-> NoAttr,
                     playAddr |-> NoAttr],   \* what api.video returned
      download_url |-> NoDownloadUrl ]

Emit(j, sigs) == [j EXCEPT !.signals = @ \o sigs]
\* The completion with its last progress value sent through _update_progress,
\* which is silent once the job is cancelled.
EmitCompleted_guarded(j) ==
    IF j.cancelled THEN Emit(j, <<"status:completed", "finished">>)
    ELSE [Emit(j, <<"progress:100", "status:completed", "finished">>)
            EXCEPT !.progress = Append(@, 100)]
\* progress_signal.emit(100.0), status_signal(completed), finished_signal.
EmitCompleted(j) ==
    [Emit(j, <<"progress:100", "status:completed", "finished">>)
        EXCEPT !.progress = Append(@, 100)]
\* _update_progress(downloaded / total_size * 100).
_update_progress(j) ==
    IF j.cancelled THEN j
    ELSE [Emit(j, <<"progress">>)
            EXCEPT !.progress = Append(@, (j.downloaded * 100) \div j.total_size)]
\* An exception that reaches run's `except Exception`.
RunExcept(j) == [Emit(j, <<"error">>) EXCEPT !.pc = "end"]
\* An early return after emitting error_signal.
ErrorReturn(j) == [Emit(j, <<"error">>) EXCEPT !.pc = "end"]

\* run: status_signal(preparing).
JobRun ==
    /\ job.pc = "run"
    /\ job' = [Emit(job, <<"status:preparing">>) EXCEPT !.pc = "mkdir"]
    /\ UNCHANGED <<coordVars, ch, dir, vi, hist, cfg, callers>>

\* run: path.mkdir, then status_signal(downloading).
JobMkdir ==
    /\ job.pc = "mkdir"
    /\ \/ job' = [Emit(job, <<"status:downloading">>) EXCEPT !.pc = "ytdlp"]
       \/ job' = RunExcept(job)
    /\ UNCHANGED <<coordVars, ch, dir, vi, hist, cfg, callers>>

\* _try_ytdlp_download whose success does not end run.
JobYtdlp_falls_through ==
    /\ job.pc = "ytdlp"
    /\ LET j == [job EXCEPT !.steps = Append(@, "primary")]
       IN \/ job' = [j EXCEPT !.pc = "api_check"]
          \/ job' = [EmitCompleted([j EXCEPT !.steps = Append(@, "primary_ok")])
                       EXCEPT !.pc = "api_check", !.file = "complete"]
    /\ UNCHANGED <<coordVars, ch, dir, vi, hist, cfg, callers>>

\* _try_ytdlp_download: the import or the download fails and the fallback
\* follows, or the download succeeds and the job reports completion.
JobYtdlp ==
    /\ job.pc = "ytdlp"
    /\ LET j == [job EXCEPT !.steps = Append(@, "primary")]
       IN \/ job' = [j EXCEPT !.pc = "api_check"]
          \/ job' = [EmitCompleted([j EXCEPT !.steps = Append(@, "primary_ok")])
                       EXCEPT !.pc = "end", !.file = "complete"]
    /\ UNCHANGED <<coordVars, ch, dir, vi, hist, cfg, callers>>

\* run: check_tiktokapi_installed, then the import in _download_async.
JobApiCheck ==
    /\ job.pc = "api_check"
    /\ \/ job' = ErrorReturn(job)
       \/ LET j == [job EXCEPT !.steps = Append(@, "secondary")]
          IN \/ job' = RunExcept(j)
             \/ job' = [j EXCEPT !.pc = "session"]
    /\ UNCHANGED <<coordVars, ch, dir, vi, hist, cfg, callers>>

\* The session loop with the sleep after every failed attempt.
JobSession_sleeps_always ==
    /\ job.pc = "session"
    /\ job.attempt < max_retries
    /\ \/ job' = [job EXCEPT !.pc = "meta", !.steps = Append(@, "session_ok")]
       \/ IF job.attempt < max_retries - 1
          THEN job' = [job EXCEPT !.attempt = @ + 1,
                                  !.steps = @ \o <<"session_fail", "sleep">>]
          ELSE job' = ErrorReturn([job EXCEPT !.attempt = @ + 1,
                                              !.steps = @ \o <<"session_fail", "sleep">>])
    /\ UNCHANGED <<coordVars, ch, dir, vi, hist, cfg, callers>>

\* _download_async: one attempt of api.create_sessions().
JobSession ==
    /\ job.pc = "session"
    /\ job.attempt < max_retries
    /\ \/ job' = [job EXCEPT !.pc = "meta", !.steps = Append(@, "session_ok")]
       \/ IF job.attempt < max_retries - 1
          THEN job' = [job EXCEPT !.attempt = @ + 1,
                                  !.steps = @ \o <<"session_fail", "sleep">>]
          ELSE job' = ErrorReturn([job EXCEPT !.attempt = @ + 1,
                                              !.steps = Append(@, "session_fail")])
    /\ UNCHANGED <<coordVars, ch, dir, vi, hist, cfg, callers>>

\* _download_async: api.video, the cancelled check and the choice of the
\* download url.
JobMeta ==
    /\ job.pc = "meta"
    /\ LET j == [job EXCEPT !.steps = Append(@, "meta")]
       IN \/ job' = RunExcept(j)
          \/ /\ job.cancelled
             /\ job' = [j EXCEPT !.pc = "end"]
          \/ /\ ~job.cancelled
             /\ \E video_data \in VideoDatas :
                   LET u == extract_download_url(video_data)
                       k == [j EXCEPT !.video_data = video_data, !.download_url = u]
                   IN job' = IF video_data.video = "none" \/ u \in {NoDownloadUrl, NoAddr}
                             THEN ErrorReturn(k)
                             ELSE [k EXCEPT !.pc = "http"]
    /\ UNCHANGED <<coordVars, ch, dir, vi, hist, cfg, callers>>

\* _download_async: requests.get, the status check, the output file is opened.
JobHttp ==
    /\ job.pc = "http"
    /\ LET j == [job EXCEPT !.steps = Append(@, "http")]
       IN \/ job' = RunExcept(j) /\ UNCHANGED dir
          \/ job' = ErrorReturn(j) /\ UNCHANGED dir
          \/ \E size \in 0..MaxChunks :
                LET f == unique_filename(dir.files)
                IN /\ job' = [j EXCEPT !.pc = "stream", !.total_size = size,
                                       !.file = "partial", !.output_file = f]
                   /\ dir' = [dir EXCEPT !.files = @ \cup {f},
                                         !.opens = Append(@, [file |-> f, existed |-> dir.files])]
    /\ UNCHANGED <<coordVars, ch, vi, hist, cfg, callers>>

\* _download_async: one pass of the chunk loop.
JobChunk ==
    /\ job.pc = "stream"
    /\ job.chunks < MaxChunks
    /\ \/ job' = RunExcept(job) /\ UNCHANGED dir
       \/ /\ job.cancelled
          /\ job' = [Emit(job, <<"status:cancelled">>) EXCEPT !.pc = "end", !.file = "none"]
          /\ dir' = [dir EXCEPT !.files = @ \ {job.output_file}]
       \/ /\ ~job.cancelled
          /\ UNCHANGED dir
          /\ \/ job' = [job EXCEPT !.chunks = @ + 1]
             \/ LET j == [job EXCEPT !.chunks = @ + 1, !.downloaded = @ + 1]
                IN job' = IF j.total_size > 0 THEN _update_progress(j) ELSE j
    /\ UNCHANGED <<coordVars, ch, vi, hist, cfg, callers>>

\* _download_async: the stream ends; completion is reported.
JobFinish ==
    /\ job.pc = "stream"
    /\ job' = [EmitCompleted(job) EXCEPT !.pc = "end", !.file = "complete"]
    /\ UNCHANGED <<coordVars, ch, dir, vi, hist, cfg, callers>>

\* The worker has ended and the next DownloadThread is created and started,
\* for a video of the same sanitized title.
JobStartNext ==
    /\ job.pc = "end"
    /\ dir.runs < MaxDownloads
    /\ job' = JobNew
    /\ dir' = [dir EXCEPT !.runs = @ + 1]
    /\ UNCHANGED <<coordVars, ch, vi, hist, cfg, callers>>

\* pause(), resume(), cancel(): called from the interface thread at any time.
\* process is never set, so none of them touches a subprocess.
JobPause ==
    /\ job.calls < MaxCalls
    /\ job' = [job EXCEPT !.paused = TRUE, !.calls = @ + 1]
    /\ UNCHANGED <<coordVars, ch, dir, vi, hist, cfg, callers>>

JobResume ==
    /\ job.calls < MaxCalls
    /\ job' = [job EXCEPT !.paused = FALSE, !.calls = @ + 1]
    /\ UNCHANGED <<coordVars, ch, dir, vi, hist, cfg, callers>>

\* cancel that reads self.process.pid without `if self.process:` and without
\* the guard of _kill_process_tree: AttributeError on None.
cancel_unguarded(j) ==
    [j EXCEPT !.cancelled = TRUE, !.raised = @ \/ j.process = None]

\* cancel: the flag, and _kill_process_tree when a subprocess is recorded;
\* none ever is, and _kill_process_tree returns at once without one.
cancel(j) == [j EXCEPT !.cancelled = TRUE]

JobCancel ==
    /\ job.calls < MaxCalls
    /\ job' = [cancel(job) EXCEPT !.calls = @ + 1,
                                  !.cancel_at = IF @ = "never" THEN job.pc ELSE @]
    /\ UNCHANGED <<coordVars, ch, dir, vi, hist, cfg, callers>>

\* ====================================================== VideoInfoThread
\* VideoInfoThread.__init__ followed by start().
InfoNew ==
    [ pc |-> "ytdlp",       \* ytdlp | api_check | session | meta | end
      cancelled |-> FALSE,
      attempt |-> 0,
      signals |-> <<>>,
      steps |-> <<>> ]

\* run's `except Exception`: error_signal, and run ends without finished_signal.
InfoRunExcept(v) == [v EXCEPT !.signals = Append(@, "error"), !.pc = "end"]
\* _fetch_video_async has returned: run emits finished_signal.
InfoReturned(v) == [v EXCEPT !.signals = Append(@, "finished"), !.pc = "end"]
\* The `finally: await api.close_sessions()` of _fetch_video_async, which may
\* raise, on the way to the return.
InfoClosed(v, close_ok) == IF close_ok THEN InfoReturned(v) ELSE InfoRunExcept(v)

\* _try_ytdlp_video_info: not installed, raised or empty info and the fallback
\* follows, or video_info_signal and finished_signal.
InfoYtdlp ==
    /\ vi.pc = "ytdlp"
    /\ LET v == [vi EXCEPT !.steps = Append(@, "primary")]
       IN \/ vi' = [v EXCEPT !.pc = "api_check"]
          \/ vi' = [v EXCEPT !.steps = Append(@, "primary_ok"),
                             !.signals = @ \o <<"video_info", "finished">>,
                             !.pc = "end"]
    /\ UNCHANGED <<coordVars, ch, job, dir, hist, cfg, callers>>

\* run: check_tiktokapi_installed, then the import and TikTokApi().
InfoApiCheck ==
    /\ vi.pc = "api_check"
    /\ \/ vi' = InfoRunExcept(vi)
       \/ LET v == [vi EXCEPT !.steps = Append(@, "secondary")]
          IN \/ vi' = InfoRunExcept(v)
             \/ vi' = [v EXCEPT !.pc = "session"]
    /\ UNCHANGED <<coordVars, ch, job, dir, hist, cfg, callers>>

\* _fetch_video_async: one attempt of api.create_sessions(); after the last
\* failure error_signal and return.
InfoSession ==
    /\ vi.pc = "session"
    /\ vi.attempt < max_retries
    /\ \/ vi' = [vi EXCEPT !.pc = "meta", !.steps = Append(@, "session_ok")]
       \/ IF vi.attempt < max_retries - 1
          THEN vi' = [vi EXCEPT !.attempt = @ + 1,
                                !.steps = @ \o <<"session_fail", "sleep">>]
          ELSE vi' = InfoReturned([vi EXCEPT !.attempt = @ + 1,
                                             !.steps = Append(@, "session_fail"),
                                             !.signals = Append(@, "error")])
    /\ UNCHANGED <<coordVars, ch, job, dir, hist, cfg, callers>>

\* _fetch_video_async: api.video, the cancelled check, the signal.
InfoMeta ==
    /\ vi.pc = "meta"
    /\ \E close_ok \in BOOLEAN :
          LET v == [vi EXCEPT !.steps = Append(@, "meta")]
          IN \/ vi' = InfoRunExcept(v)
             \/ /\ vi.cancelled
                /\ vi' = InfoClosed(v, close_ok)
             \/ /\ ~vi.cancelled
                /\ \/ vi' = InfoClosed([v EXCEPT !.signals = Append(@, "video_info")], close_ok)
                   \/ vi' = InfoClosed([v EXCEPT !.signals = Append(@, "error")], close_ok)
    /\ UNCHANGED <<coordVars, ch, job, dir, hist, cfg, callers>>

\* VideoInfoThread.cancel()
InfoCancel ==
    /\ ~vi.cancelled
    /\ vi' = [vi EXCEPT !.cancelled = TRUE]
    /\ UNCHANGED <<coordVars, ch, job, dir, hist, cfg, callers>>

\* ================================================== get_channel_videos
\* Lines a strategy's subprocess writes to its standard output.
MaxLines == 3
\* The largest max_videos tried (0 = no limit).
MaxMaxVideos == 2
\* The approaches list.
NumApproaches == 5

\* What one output line can be: a JSON object with a url ("valid"), a blank
\* line, text that is no JSON ("badjson"), a falsy JSON value such as null, 0
\* or {} ("falsy"), a truthy JSON value that is no object such as 42 or [1]
\* ("nonobject"), a JSON object without webpage_url/url ("nourl"), and bytes
\* the text-mode pipe cannot decode ("undecodable").
LineKinds == {"valid", "blank", "badjson", "falsy", "nonobject", "nourl", "undecodable"}
RECURSIVE SeqsUpTo(_, _)
SeqsUpTo(S, n) ==
    IF n = 0 THEN {<<>>}
    ELSE LET shorter == SeqsUpTo(S, n - 1) IN
         shorter \cup {Append(q, x) : q \in {r \in shorter : Len(r) = n - 1}, x \in S}
Streams == SeqsUpTo(LineKinds, MaxLines)

\* Exceptions raised inside the loop body, all subclasses of Exception: Popen
\* failing (OSError), .get on a value that is no dict (AttributeError), a
\* callback raising, the pipe failing to decode (UnicodeDecodeError).
ExcKinds == {"OSError", "AttributeError", "CallbackError", "UnicodeDecodeError"}
\* A narrower handler: `except OSError`.
CatchesOSError(e) == e = "OSError"

\* What `except Exception` catches.
CatchesException(e) == e \in ExcKinds

ChInit(mv, cb, pg) ==
    [ pc |-> "launch",          \* launch | read | yield | wait | done | closed
      approach_idx |-> 0,
      max_videos |-> mv,
      use_callback |-> cb,      \* video_callback given
      use_progress |-> pg,      \* progress_callback given
      videos |-> <<>>,
      videos_yielded |-> 0,
      stream |-> <<>>,          \* what the running subprocess has yet to write
      full |-> <<>>,            \* all it writes
      line |-> 0,               \* lines read from it
      process |-> "none",       \* the current subprocess: none|alive|exited|terminated
      stalled |-> FALSE,        \* it writes no more and keeps its stdout open
      leaked |-> 0,             \* subprocesses left running when the code moved on
      attempts |-> <<>>,        \* the approaches Popen was called for, in order
      accepted |-> [k \in 1..NumApproaches |-> 0],   \* videos each strategy yielded
      delivered |-> <<>>,       \* what video_callback was called with or the consumer got
      progress |-> <<>>,        \* the last progress_callback(total, current)
      upset |-> FALSE,          \* a callback raised or the consumer closed
      result |-> <<>>,
      raised |-> FALSE ]        \* an exception left get_channel_videos

\* return videos / return []
Return(c, v) == [c EXCEPT !.pc = "done", !.result = v]

\* The end of one pass of the for loop without a return: the next approach,
\* or after the last one the code below the loop.
NextApproach(c) ==
    IF c.approach_idx + 1 < NumApproaches
    THEN [c EXCEPT !.approach_idx = @ + 1, !.pc = "launch"]
    ELSE IF c.videos = <<>> THEN Return(c, <<>>) ELSE Return(c, c.videos)

\* An exception inside the loop body: the inner handlers return what the
\* strategy has collected or go on to the next approach; what they do not catch
\* reaches the outer handler, which catches the same class.
Throw(c, e) ==
    LET c0 == [c EXCEPT !.leaked = IF c.process = "alive" THEN @ + 1 ELSE @] IN
    IF CatchesException(e)
    THEN IF c0.videos # <<>> THEN Return(c0, c0.videos) ELSE NextApproach(c0)
    ELSE [c0 EXCEPT !.pc = "done", !.raised = TRUE]

\* The check of the limit that ends the handling of an accepted line.
CheckLimit(c) ==
    IF c.max_videos > 0 /\ c.videos_yielded >= c.max_videos
    THEN [c EXCEPT !.process = "terminated", !.pc = "wait"]
    ELSE [c EXCEPT !.pc = "read"]

\* progress_callback(max_videos if max_videos > 0 else 0, videos_yielded), then
\* the limit.
Progress(c, cb_ok) ==
    IF ~c.use_progress THEN CheckLimit(c)
    ELSE IF ~cb_ok THEN Throw([c EXCEPT !.upset = TRUE], "CallbackError")
    ELSE CheckLimit([c EXCEPT !.progress = <<c.max_videos, c.videos_yielded>>])

\* The handling of a line with video_callback called before the test of
\* video_info['url'].
HandleLine_callback_first(c, kind, cb_ok, pg_ok) ==
    LET k == c.approach_idx + 1
        c0 == [c EXCEPT !.stream = Tail(@), !.line = @ + 1]
        video_info == [ap |-> k, n |-> c0.line]
    IN CASE kind = "undecodable" -> Throw(c0, "UnicodeDecodeError")
         [] kind \in {"blank", "badjson", "falsy"} -> c0
         [] kind = "nourl" ->
              IF c0.use_callback
              THEN [c0 EXCEPT !.delivered = Append(@, video_info)]
              ELSE c0
         [] kind = "nonobject" -> Throw(c0, "AttributeError")
         [] OTHER ->
              LET c1 == [c0 EXCEPT !.videos = Append(@, video_info),
                                   !.videos_yielded = @ + 1,
                                   !.accepted[k] = @ + 1]
              IN IF c1.use_callback
                 THEN IF cb_ok
                      THEN Progress([c1 EXCEPT !.delivered = Append(@, video_info)], pg_ok)
                      ELSE Throw([c1 EXCEPT !.delivered = Append(@, video_info),
                                            !.upset = TRUE], "CallbackError")
                 ELSE [c1 EXCEPT !.pc = "yield"]

\* One line of process.stdout is handled.  video_callback has received the
\* video when it is called, whether it then returns or raises.
HandleLine(c, kind, cb_ok, pg_ok) ==
    LET k == c.approach_idx + 1
        c0 == [c EXCEPT !.stream = Tail(@), !.line = @ + 1]
        video_info == [ap |-> k, n |-> c0.line]
    IN CASE kind = "undecodable" -> Throw(c0, "UnicodeDecodeError")
         [] kind \in {"blank", "badjson", "falsy", "nourl"} -> c0
         [] kind = "nonobject" -> Throw(c0, "AttributeError")
         [] OTHER ->
              LET c1 == [c0 EXCEPT !.videos = Append(@, video_info),
                                   !.videos_yielded = @ + 1,
                                   !.accepted[k] = @ + 1]
              IN IF c1.use_callback
                 THEN IF cb_ok
                      THEN Progress([c1 EXCEPT !.delivered = Append(@, video_info)], pg_ok)
                      ELSE Throw([c1 EXCEPT !.delivered = Append(@, video_info),
                                            !.upset = TRUE], "CallbackError")
                 ELSE [c1 EXCEPT !.pc = "yield"]

\* subprocess.Popen for the approach at approach_idx, after the reset of videos
\* at the top of the loop body.
ChLaunch ==
    /\ ch.pc = "launch"
    /\ LET c == [ch EXCEPT !.videos = <<>>, !.videos_yielded = 0, !.line = 0,
                           !.process = "none", !.stream = <<>>, !.full = <<>>,
                           !.attempts = Append(@, ch.approach_idx + 1)]
       IN \/ \E st \in Streams :
                ch' = [c EXCEPT !.process = "alive", !.stream = st, !.full = st,
                                !.pc = "read"]
          \/ ch' = Throw(c, "OSError")
    /\ UNCHANGED <<coordVars, job, dir, vi, hist, cfg, callers>>

\* for line in process.stdout
ChReadLine ==
    /\ ch.pc = "read" /\ ch.stream # <<>> /\ ~ch.stalled
    /\ \E cb_ok \in BOOLEAN, pg_ok \in BOOLEAN :
          /\ (Head(ch.stream) # "valid" \/ ~ch.use_callback) => cb_ok
          /\ (Head(ch.stream) # "valid" \/ ~ch.use_progress \/ ~ch.use_callback \/ ~cb_ok)
                 => pg_ok
          /\ ch' = HandleLine(ch, Head(ch.stream), cb_ok, pg_ok)
    /\ UNCHANGED <<coordVars, job, dir, vi, hist, cfg, callers>>

\* The subprocess has written all it writes to its standard output and does
\* not close it: it is blocked writing to the stderr pipe, which is full
\* because nothing reads it before the wait is over, or it is stalled.
\* `for line in process.stdout` has no timeout and goes on waiting for the
\* next line.
ChStall ==
    /\ ch.pc = "read" /\ ch.stream = <<>> /\ ch.process = "alive" /\ ~ch.stalled
    /\ ch' = [ch EXCEPT !.stalled = TRUE]
    /\ UNCHANGED <<coordVars, job, dir, vi, hist, cfg, callers>>

\* The consumer of the generator asks for the next video: the code after the
\* yield runs.
ChResume ==
    /\ ch.pc = "yield"
    /\ \E pg_ok \in BOOLEAN :
          /\ ~ch.use_progress => pg_ok
          /\ ch' = Progress([ch EXCEPT !.delivered = Append(@, ch.videos[Len(ch.videos)])],
                            pg_ok)
    /\ UNCHANGED <<coordVars, job, dir, vi, hist, cfg, callers>>

\* The consumer drops the generator: GeneratorExit at the yield, which no
\* `except Exception` catches.
ChClose ==
    /\ ch.pc = "yield"
    /\ ch' = [ch EXCEPT !.delivered = Append(@, ch.videos[Len(ch.videos)]),
                        !.leaked = @ + 1, !.upset = TRUE, !.pc = "closed"]
    /\ UNCHANGED <<coordVars, job, dir, vi, hist, cfg, callers>>

\* The end of a strategy without `if videos: return videos`.
ChWait_no_return ==
    /\ \/ ch.pc = "read" /\ ch.stream = <<>> /\ ~ch.stalled
       \/ ch.pc = "wait"
    /\ \E timed_out \in BOOLEAN :
          LET c == [ch EXCEPT !.process = IF @ = "terminated" \/ timed_out
                                          THEN "terminated" ELSE "exited"]
          IN ch' = NextApproach(c)
    /\ UNCHANGED <<coordVars, job, dir, vi, hist, cfg, callers>>

\* The output ends; process.wait(timeout=300), on TimeoutExpired terminate and
\* wait; then stderr is read and the strategy's videos decide.
ChWait ==
    /\ \/ ch.pc = "read" /\ ch.stream = <<>> /\ ~ch.stalled
       \/ ch.pc = "wait"
    /\ \E timed_out \in BOOLEAN :
          LET c == [ch EXCEPT !.process = IF @ = "terminated" \/ timed_out
                                          THEN "terminated" ELSE "exited"]
          IN ch' = IF c.videos # <<>> THEN Return(c, c.videos) ELSE NextApproach(c)
    /\ UNCHANGED <<coordVars, job, dir, vi, hist, cfg, callers>>

\* ======================================================= HistoryManager
\* Calls of add_entry in one run.
MaxAdds == 3
\* Entries the history file may hold from earlier runs.
MaxOldEntries == 2

\* An entry: n numbers the add_entry calls of all runs (the entry's content),
\* id is the millisecond clock at the call.
Entry(n, id) == [n |-> n, id |-> id]
\* What earlier runs left in the file, most recent first.
OldEntries(k) == [i \in 1..k |-> Entry(k + 1 - i, k + 1 - i)]
\* The history file: missing, unparseable, JSON that is no list, or a list.
FileStates ==
    {[kind |-> "missing", list |-> <<>>], [kind |-> "corrupt", list |-> <<>>],
     [kind |-> "notalist", list |-> <<>>]}
      \cup {[kind |-> "list", list |-> OldEntries(k)] : k \in 0..MaxOldEntries}

HistNew(f) ==
    [ _history |-> <<>>,
      _loaded |-> FALSE,
      file |-> f,
      clock |-> MaxOldEntries + 1,   \* time.time() * 1000
      adds |-> MaxOldEntries,        \* add_entry calls so far, of all runs
      returned |-> <<>>,             \* what the last call returned
      op |-> "none",                 \* the last call
      arg |-> 0,                     \* the entry_id of the last remove_entry
      only_adds |-> f.list = <<>>,   \* no entry at the start, add_entry since
      cleared |-> FALSE ]            \* clear_history was called, no add_entry since

\* _load
_load(h) ==
    [h EXCEPT !._history = IF h.file.kind = "list" THEN h.file.list ELSE <<>>,
              !._loaded = TRUE]
Loaded(h) == IF h._loaded THEN h ELSE _load(h)

\* _save: the file is written, or cannot be opened and stays as it is, or the
\* write breaks off after the file was truncated.
SaveOutcomes == {"saved", "unwritable", "torn"}
_save(h, out) ==
    CASE out = "saved" -> [h EXCEPT !.file = [kind |-> "list", list |-> h._history]]
      [] out = "torn" -> [h EXCEPT !.file = [kind |-> "corrupt", list |-> <<>>]]
      [] OTHER -> h

\* add_entry with the new entry appended at the end of the list.
add_entry_at_tail(h, tick, out) ==
    LET h0 == Loaded(h)
        h1 == [h0 EXCEPT !.clock = @ + tick, !.adds = @ + 1]
        entry == Entry(h1.adds, h1.clock)
    IN [_save([h1 EXCEPT !._history = Append(@, entry)], out)
          EXCEPT !.returned = <<entry.id>>, !.op = "add", !.arg = 0, !.cleared = FALSE]

\* add_entry; tick is the time that passed since the previous call.
add_entry(h, tick, out) ==
    LET h0 == Loaded(h)
        h1 == [h0 EXCEPT !.clock = @ + tick, !.adds = @ + 1]
        entry == Entry(h1.adds, h1.clock)
    IN [_save([h1 EXCEPT !._history = <<entry>> \o @], out)
          EXCEPT !.returned = <<entry.id>>, !.op = "add", !.arg = 0, !.cleared = FALSE]

\* get_all_entries
get_all_entries(h) ==
    LET h0 == Loaded(h)
    IN [h0 EXCEPT !.returned = h0._history, !.op = "get", !.arg = 0,
                  !.only_adds = FALSE]

\* The first position of the list whose entry has the id, 0 if there is none.
FirstWithId(list, id) ==
    IF \E i \in 1..Len(list) : list[i].id = id
    THEN CHOOSE i \in 1..Len(list) :
             list[i].id = id /\ \A k \in 1..(i - 1) : list[k].id # id
    ELSE 0

\* remove_entry
remove_entry(h, entry_id, out) ==
    LET h0 == Loaded(h)
        i == FirstWithId(h0._history, entry_id)
    IN IF i = 0
       THEN [h0 EXCEPT !.returned = <<FALSE>>, !.op = "remove", !.arg = entry_id,
                       !.only_adds = FALSE]
       ELSE [_save([h0 EXCEPT !._history = SubSeq(@, 1, i - 1) \o SubSeq(@, i + 1, Len(@))],
                   out)
               EXCEPT !.returned = <<TRUE>>, !.op = "remove", !.arg = entry_id,
                      !.only_adds = FALSE]

\* clear_history
clear_history(h, out) ==
    [_save([h EXCEPT !._history = <<>>], out)
       EXCEPT !.returned = <<>>, !.op = "clear", !.arg = 0, !.only_adds = FALSE,
              !.cleared = TRUE]

HistOthers == UNCHANGED <<coordVars, ch, job, dir, vi, cfg, callers>>

HAddEntry ==
    /\ hist.adds < MaxOldEntries + MaxAdds
    /\ \E tick \in 0..1, out \in SaveOutcomes : hist' = add_entry(hist, tick, out)
    /\ HistOthers

HGetAllEntries ==
    /\ hist' = get_all_entries(hist)
    /\ HistOthers

HRemoveEntry ==
    /\ \E entry_id \in 1..(MaxOldEntries + MaxAdds + 1), out \in SaveOutcomes :
          hist' = remove_entry(hist, entry_id, out)
    /\ HistOthers

HClearHistory ==
    /\ \E out \in SaveOutcomes : hist' = clear_history(hist, out)
    /\ HistOthers

\* ======================================================== ConfigManager
\* Mutating calls (set, delete, reset_to_defaults) in one run.
MaxCfgCalls == 3

\* JSON values: None, a scalar, a tuple (which JSON writes as a list), a list,
\* a dict.  A dict is a function from its keys to values.
Null == [t |-> "null"]
Val(v) == [t |-> "val", v |-> v]
TupleV == [t |-> "tuple"]
ListV == [t |-> "list"]
Map(m) == [t |-> "map", m |-> m]
EmptyDict == [k \in {} |-> Null]
Put(m, key, value) ==
    [k \in DOMAIN m \cup {key} |-> IF k = key THEN value ELSE m[k]]
Drop(m, key) == [k \in DOMAIN m \ {key} |-> m[k]]

\* _default_config, abridged to a scalar, a None and the nested mapping.
DefaultConfig ==
    [k \in {"language", "proxy_url", "cached_versions"} |->
        CASE k = "language" -> Val("en")
          [] k = "proxy_url" -> Null
          [] OTHER -> Map([y \in {"ytdlp"} |->
                             Map([v \in {"version", "last_check"} |->
                                     IF v = "version" THEN Null ELSE Val("0")])])]

\* key.split("."): the keys the callers pass, as their segments.
CfgPaths ==
    { <<"language">>, <<"language", "ytdlp">>,
      <<"cached_versions", "ytdlp">>, <<"cached_versions", "ytdlp", "version">>,
      <<"extra", "ytdlp", "version">> }
CfgValues == {Val("vi"), TupleV, Null}
CfgDefaults == {Null, Val("fallback")}

\* json.dump followed by json.load: a tuple comes back as a list.
RECURSIVE Json(_)
Json(value) ==
    CASE value.t = "tuple" -> ListV
      [] value.t = "map" -> Map([k \in DOMAIN value.m |-> Json(value.m[k])])
      [] OTHER -> value
JsonDoc(m) == [k \in DOMAIN m |-> Json(m[k])]

\* The config file: missing, unparseable, JSON that is no object, or an object.
CfgFile(kind, doc) == [kind |-> kind, doc |-> doc]
CfgFileStates ==
    { CfgFile("missing", EmptyDict), CfgFile("corrupt", EmptyDict),
      CfgFile("notadict", EmptyDict), CfgFile("dict", EmptyDict),
      CfgFile("dict", [k \in {"language"} |-> Val("vi")]),
      CfgFile("dict", [k \in {"language", "cached_versions"} |->
                          IF k = "language" THEN Val("vi") ELSE Map(EmptyDict)]) }

\* The top-level keys whose value in a shallow copy of d is a dict, that is
\* the same object as in d.
MapKeys(d) == {k \in DOMAIN d : d[k].t = "map"}

CfgNew(f) ==
    [ _settings |-> EmptyDict,
      _default_config |-> DefaultConfig,
      shared |-> {},       \* keys k with _settings[k] is _default_config[k]
      _loaded |-> FALSE,
      file |-> f,
      loads |-> 0,         \* times the file was read or found missing
      calls |-> 0,         \* mutating calls so far
      dirty |-> FALSE,     \* the last mutating call's save failed
      op |-> "none",       \* the last call, its arguments and its result
      key |-> <<>>,
      value |-> Null,
      default |-> Null,
      returned |-> Null,
      raised |-> FALSE,
      saved |-> "none" ]   \* the outcome of the last call's last _save

\* _save
ConfigManager_save(c, out) ==
    [(CASE out = "saved" ->
             [c EXCEPT !.file = CfgFile("dict", JsonDoc(c._settings))]
        [] out = "torn" -> [c EXCEPT !.file = CfgFile("corrupt", EmptyDict)]
        [] OTHER -> c)
       EXCEPT !.saved = out]

\* {**d, **data}
Merge(d, data) ==
    [k \in DOMAIN d \cup DOMAIN data |-> IF k \in DOMAIN data THEN data[k] ELSE d[k]]

\* _load with the file's keys overridden by the defaults.
ConfigManager_load_defaults_win(c, lout) ==
    IF c._loaded THEN c
    ELSE LET d == c._default_config
             c1 == [c EXCEPT !._loaded = TRUE, !.loads = @ + 1]
         IN CASE c.file.kind = "dict" ->
                   [c1 EXCEPT !._settings = Merge(c.file.doc, d),
                              !.shared = MapKeys(d)]
              [] c.file.kind = "missing" ->
                   ConfigManager_save(
                       [c1 EXCEPT !._settings = d, !.shared = MapKeys(d)], lout)
              [] OTHER -> [c1 EXCEPT !._settings = d, !.shared = MapKeys(d)]

\* _load that falls back to an empty document, not to the defaults, when the
\* file cannot be used.
ConfigManager_load_empty_fallback(c, lout) ==
    IF c._loaded THEN c
    ELSE LET d == c._default_config
             c1 == [c EXCEPT !._loaded = TRUE, !.loads = @ + 1]
         IN CASE c.file.kind = "dict" ->
                   [c1 EXCEPT !._settings = Merge(d, c.file.doc),
                              !.shared = MapKeys(d) \ DOMAIN c.file.doc]
              [] c.file.kind = "missing" ->
                   ConfigManager_save(
                       [c1 EXCEPT !._settings = d, !.shared = MapKeys(d)], lout)
              [] OTHER -> [c1 EXCEPT !._settings = EmptyDict, !.shared = {}]

\* _load; lout is the outcome of the save it makes when the file is missing.
ConfigManager_load(c, lout) ==
    IF c._loaded THEN c
    ELSE LET d == c._default_config
             c1 == [c EXCEPT !._loaded = TRUE, !.loads = @ + 1]
         IN CASE c.file.kind = "dict" ->
                   [c1 EXCEPT !._settings = Merge(d, c.file.doc),
                              !.shared = MapKeys(d) \ DOMAIN c.file.doc]
              [] c.file.kind = "missing" ->
                   ConfigManager_save(
                       [c1 EXCEPT !._settings = d, !.shared = MapKeys(d)], lout)
              [] OTHER -> [c1 EXCEPT !._settings = d, !.shared = MapKeys(d)]

\* `if not cls._loaded: cls._load()` at the head of get, set and delete.
CfgLoaded(c, lout) ==
    LET c0 == [c EXCEPT !.saved = "none"]
    IN IF c0._loaded THEN c0 ELSE ConfigManager_load(c0, lout)

\* The loop of get over the segments, and its return.
RECURSIVE Walk(_, _, _)
Walk(value, keys, default) ==
    IF keys = <<>>
    THEN IF value # Null THEN value ELSE default
    ELSE IF value.t = "map" /\ Head(keys) \in DOMAIN value.m
         THEN Walk(value.m[Head(keys)], Tail(keys), default)
         ELSE default

\* `isinstance(current[k], dict)` along a path: the value the path leads to
\* through mappings, Absent when a segment is missing or an intermediate
\* value is no mapping.
Absent == [t |-> "absent"]
RECURSIVE At(_, _)
At(value, keys) ==
    IF keys = <<>> THEN value
    ELSE IF value.t = "map" /\ Head(keys) \in DOMAIN value.m
         THEN At(value.m[Head(keys)], Tail(keys))
         ELSE Absent
\* keys[:n]
Prefix(key, n) == SubSeq(key, 1, n)

\* Whether the loop of get, written as `value = value[k]` alone, raises.
RECURSIVE WalkRaises(_, _)
WalkRaises(value, keys) ==
    /\ keys # <<>>
    /\ \/ value.t # "map"
       \/ Head(keys) \notin DOMAIN value.m
       \/ WalkRaises(value.m[Head(keys)], Tail(keys))

Answered(c, op, key, value, default, returned, raised) ==
    [c EXCEPT !.op = op, !.key = key, !.value = value, !.default = default,
              !.returned = returned, !.raised = raised]

\* get without the test `isinstance(value, dict) and k in value`.
get_unguarded(c, key, default, lout) ==
    LET c0 == CfgLoaded(c, lout)
        raises == WalkRaises(Map(c0._settings), key)
    IN Answered(c0, "get", key, Null, default,
                IF raises THEN Null ELSE Walk(Map(c0._settings), key, default),
                raises)

\* get
get(c, key, default, lout) ==
    LET c0 == CfgLoaded(c, lout)
    IN Answered(c0, "get", key, Null, default,
                Walk(Map(c0._settings), key, default), FALSE)

\* The loop of set with `current[k] = {}` at every intermediate segment.
RECURSIVE SetInFresh(_, _, _)
SetInFresh(m, keys, value) ==
    IF Len(keys) = 1
    THEN Put(m, Head(keys), value)
    ELSE Put(m, Head(keys), Map(SetInFresh(EmptyDict, Tail(keys), value)))

\* The loop of set and its final assignment, on the dict m.
RECURSIVE SetIn(_, _, _)
SetIn(m, keys, value) ==
    LET k == Head(keys)
    IN IF Len(keys) = 1
       THEN Put(m, k, value)
       ELSE LET current == IF k \in DOMAIN m /\ m[k].t = "map"
                           THEN m[k].m ELSE EmptyDict
            IN Put(m, k, Map(SetIn(current, Tail(keys), value)))

\* A change below the top-level key k of _settings is a change of the dict
\* that _default_config holds too, when the two are the same object.
Aliased(c, new, k, deep) ==
    IF deep /\ k \in c.shared /\ k \in DOMAIN new
    THEN [c EXCEPT !._settings = new, !._default_config = Put(@, k, new[k])]
    ELSE [c EXCEPT !._settings = new, !.shared = @ \ {k}]

Mutated(c, out) ==
    [ConfigManager_save(c, out)
       EXCEPT !.calls = @ + 1, !.dirty = out # "saved"]

set_fresh_mappings(c, key, value, lout, out) ==
    LET c0 == CfgLoaded(c, lout)
        c1 == Aliased(c0, SetInFresh(c0._settings, key, value), Head(key), Len(key) > 1)
    IN Answered(Mutated(c1, out), "set", key, value, Null, Null, FALSE)

\* set
set(c, key, value, lout, out) ==
    LET c0 == CfgLoaded(c, lout)
        c1 == Aliased(c0, SetIn(c0._settings, key, value), Head(key), Len(key) > 1)
    IN Answered(Mutated(c1, out), "set", key, value, Null, Null, FALSE)

\* The loop of delete and its `del`, on the dict m; m itself when the key is
\* not there.
RECURSIVE DelIn(_, _)
DelIn(m, keys) ==
    LET k == Head(keys)
    IN IF Len(keys) = 1
       THEN IF k \in DOMAIN m THEN Drop(m, k) ELSE m
       ELSE IF k \in DOMAIN m /\ m[k].t = "map"
            THEN Put(m, k, Map(DelIn(m[k].m, Tail(keys))))
            ELSE m

\* delete
delete(c, key, lout, out) ==
    LET c0 == CfgLoaded(c, lout)
        new == DelIn(c0._settings, key)
    IN IF new = c0._settings
       THEN Answered(c0, "delete", key, Null, Null, Null, FALSE)
       ELSE Answered(Mutated(Aliased(c0, new, Head(key), Len(key) > 1), out),
                     "delete", key, Null, Null, Null, FALSE)

\* reset_to_defaults
reset_to_defaults(c, out) ==
    LET c1 == [c EXCEPT !._settings = c._default_config,
                        !.shared = MapKeys(c._default_config)]
    IN Answered(Mutated(c1, out), "reset", <<>>, Null, Null, Null, FALSE)

CfgOthers == UNCHANGED <<coordVars, ch, job, dir, vi, hist, callers>>

\* The outcomes of the save that _load makes: it makes one only when the
\* store is not loaded and the file is missing.
LoadOutcomes(c) ==
    IF ~c._loaded /\ c.file.kind = "missing" THEN SaveOutcomes ELSE {"none"}

CGet ==
    /\ \E key \in CfgPaths, default \in CfgDefaults, lout \in LoadOutcomes(cfg) :
          cfg' = get(cfg, key, default, lout)
    /\ CfgOthers

CSet ==
    /\ cfg.calls < MaxCfgCalls
    /\ \E key \in CfgPaths, value \in CfgValues, lout \in LoadOutcomes(cfg),
          out \in SaveOutcomes :
          cfg' = set(cfg, key, value, lout, out)
    /\ CfgOthers

CDelete ==
    /\ cfg.calls < MaxCfgCalls
    /\ \E key \in CfgPaths, lout \in LoadOutcomes(cfg), out \in SaveOutcomes :
          cfg' = delete(cfg, key, lout, out)
    /\ CfgOthers

CResetToDefaults ==
    /\ cfg.calls < MaxCfgCalls
    /\ \E out \in SaveOutcomes : cfg' = reset_to_defaults(cfg, out)
    /\ CfgOthers

\* ========================================= callers of the two managers
\* Threads that call ConfigManager and HistoryManager, one statement at a
\* time; cfg and hist hold the class attributes and the files they share.
NumCallers == 2
MaxOpsPerCaller == 2
Callers == 1..NumCallers

\* threading.RLock: its owner (0: none) and how often the owner holds it.
LockFree == [owner |-> 0, count |-> 0]
\* acquire that never waits.
CanAcquire_always(l, t) == TRUE
\* acquire returns at once for the owner and for a free lock, else waits.
CanAcquire(l, t) == l.owner \in {0, t}
Acquire(l, t) == [owner |-> t, count |-> IF l.owner = t THEN l.count + 1 ELSE 1]
Release(l) == IF l.count > 1 THEN [l EXCEPT !.count = @ - 1] ELSE LockFree

\* The calls: the manager, the method and its arguments.
CfgCall(op, key, value) == [mgr |-> "cfg", op |-> op, key |-> key, value |-> value, id |-> 0]
HistCall(op, id) == [mgr |-> "hist", op |-> op, key |-> <<>>, value |-> Null, id |-> id]
NoCall == HistCall("none", 0)
Calls ==
    { CfgCall("get", <<"extra">>, Null),
      CfgCall("set", <<"extra", "ytdlp", "version">>, Val("vi")),
      CfgCall("delete", <<"extra">>, Null),
      HistCall("add_entry", 0), HistCall("remove_entry", 1),
      HistCall("get_all_entries", 0) }

CallerNew ==
    [ pc |-> "idle",
      call |-> NoCall,
      back |-> "idle",      \* where the running _save returns to
      data |-> [kind |-> "none"], \* what _load read from the file
      ops |-> 0,            \* calls completed
      wrote |-> FALSE,      \* the call has changed the document and not returned
      torn |-> FALSE ]      \* the call read while another call was changing

CallersNew ==
    [ lock |-> [m \in {"cfg", "hist"} |-> LockFree],
      loads |-> [m \in {"cfg", "hist"} |-> 0],
      thr |-> [t \in Callers |-> CallerNew] ]

At_pc(t, pc) == callers.thr[t].pc = pc
Mgr(t) == callers.thr[t].call.mgr
IsCall(t, pc, mgr, op) ==
    /\ At_pc(t, pc)
    /\ Mgr(t) = mgr
    /\ callers.thr[t].call.op = op
\* Another thread is between the first write of a call on the same manager
\* and that call's return.
OtherWrites(t) ==
    \E u \in Callers \ {t} : callers.thr[u].wrote /\ Mgr(u) = Mgr(t)
StoreLoaded(m) == IF m = "cfg" THEN cfg._loaded ELSE hist._loaded
CallerOthers == UNCHANGED <<coordVars, ch, job, dir, vi>>

\* A thread calls a method.
CallerStart(t) ==
    /\ At_pc(t, "idle")
    /\ callers.thr[t].ops < MaxOpsPerCaller
    /\ \E c \in Calls :
          callers' = [callers EXCEPT !.thr[t].call = c, !.thr[t].pc = "lock"]
    /\ UNCHANGED <<cfg, hist>>
    /\ CallerOthers

\* `with cls._lock:` of the method, and `if not cls._loaded:`
CallerLock(t) ==
    /\ At_pc(t, "lock")
    /\ CanAcquire(callers.lock[Mgr(t)], t)
    /\ callers' = [callers EXCEPT
          !.lock[Mgr(t)] = Acquire(@, t),
          !.thr[t].pc = IF StoreLoaded(Mgr(t)) THEN "body" ELSE "ld_lock"]
    /\ UNCHANGED <<cfg, hist>>
    /\ CallerOthers

\* `with cls._lock:` of _load; ConfigManager._load returns when _loaded is set.
CallerLoadLock(t) ==
    /\ At_pc(t, "ld_lock")
    /\ CanAcquire(callers.lock[Mgr(t)], t)
    /\ callers' = [callers EXCEPT
          !.lock[Mgr(t)] = Acquire(@, t),
          !.thr[t].pc = IF Mgr(t) = "cfg" /\ cfg._loaded THEN "ld_unlock" ELSE "ld_read"]
    /\ UNCHANGED <<cfg, hist>>
    /\ CallerOthers

\* _load: exists(), open and json.load.
CallerLoadRead(t) ==
    /\ At_pc(t, "ld_read")
    /\ LET file == IF Mgr(t) = "cfg" THEN cfg.file ELSE hist.file
       IN callers' = [callers EXCEPT
             !.loads[Mgr(t)] = @ + 1,
             !.thr[t].data = file,
             !.thr[t].torn = @ \/ file.kind = "partial" \/ OtherWrites(t),
             !.thr[t].pc = "ld_assign"]
    /\ UNCHANGED <<cfg, hist>>
    /\ CallerOthers

\* _load: the assignment of _settings or _history from what was read, and
\* ConfigManager's save of the defaults when there was no file.
CallerLoadAssign(t) ==
    /\ At_pc(t, "ld_assign")
    /\ LET data == callers.thr[t].data
       IN IF Mgr(t) = "cfg"
          THEN /\ cfg' = [cfg EXCEPT
                     !._settings = IF data.kind = "dict"
                                   THEN Merge(cfg._default_config, data.doc)
                                   ELSE cfg._default_config,
                     !.shared = IF data.kind = "dict"
                                THEN MapKeys(cfg._default_config) \ DOMAIN data.doc
                                ELSE MapKeys(cfg._default_config)]
               /\ callers' = [callers EXCEPT
                     !.thr[t].pc = IF data.kind = "missing" THEN "sv_lock" ELSE "ld_mark",
                     !.thr[t].back = "ld_mark"]
               /\ UNCHANGED hist
          ELSE /\ hist' = [hist EXCEPT
                     !._history = IF data.kind = "list" THEN data.list ELSE <<>>]
               /\ callers' = [callers EXCEPT !.thr[t].pc = "ld_mark"]
               /\ UNCHANGED cfg
    /\ CallerOthers

\* _load: `cls._loaded = True`
CallerLoadMark(t) ==
    /\ At_pc(t, "ld_mark")
    /\ IF Mgr(t) = "cfg"
       THEN cfg' = [cfg EXCEPT !._loaded = TRUE] /\ UNCHANGED hist
       ELSE hist' = [hist EXCEPT !._loaded = TRUE] /\ UNCHANGED cfg
    /\ callers' = [callers EXCEPT !.thr[t].pc = "ld_unlock"]
    /\ CallerOthers

\* the end of _load's `with`
CallerLoadUnlock(t) ==
    /\ At_pc(t, "ld_unlock")
    /\ callers' = [callers EXCEPT !.lock[Mgr(t)] = Release(@), !.thr[t].pc = "body"]
    /\ UNCHANGED <<cfg, hist>>
    /\ CallerOthers

\* get: the walk and the return value.
CallerGet(t) ==
    /\ IsCall(t, "body", "cfg", "get")
    /\ cfg' = Answered(cfg, "get", callers.thr[t].call.key, Null, Null,
                       Walk(Map(cfg._settings), callers.thr[t].call.key, Null), FALSE)
    /\ callers' = [callers EXCEPT !.thr[t].torn = @ \/ OtherWrites(t),
                                  !.thr[t].pc = "unlock"]
    /\ UNCHANGED hist
    /\ CallerOthers

\* set: one pass of the loop that makes an intermediate mapping, or, when
\* every intermediate segment holds one, the final assignment.
CallerSet(t) ==
    /\ IsCall(t, "body", "cfg", "set")
    /\ LET key == callers.thr[t].call.key
           doc == Map(cfg._settings)
           gaps == {n \in 1..(Len(key) - 1) : At(doc, Prefix(key, n)).t # "map"}
       IN IF gaps # {}
          THEN LET n == CHOOSE n \in gaps : \A k \in gaps : n <= k
               IN /\ cfg' = Aliased(cfg, SetIn(cfg._settings, Prefix(key, n), Map(EmptyDict)),
                                    Head(key), n > 1)
                  /\ callers' = [callers EXCEPT !.thr[t].wrote = TRUE]
          ELSE /\ cfg' = Aliased(cfg, SetIn(cfg._settings, key, callers.thr[t].call.value),
                                 Head(key), Len(key) > 1)
               /\ callers' = [callers EXCEPT !.thr[t].wrote = TRUE,
                                             !.thr[t].back = "unlock",
                                             !.thr[t].pc = "sv_lock"]
    /\ UNCHANGED hist
    /\ CallerOthers

\* delete
CallerDelete(t) ==
    /\ IsCall(t, "body", "cfg", "delete")
    /\ LET key == callers.thr[t].call.key
           new == DelIn(cfg._settings, key)
       IN IF new = cfg._settings
          THEN /\ callers' = [callers EXCEPT !.thr[t].pc = "unlock"]
               /\ UNCHANGED cfg
          ELSE /\ cfg' = Aliased(cfg, new, Head(key), Len(key) > 1)
               /\ callers' = [callers EXCEPT !.thr[t].wrote = TRUE,
                                             !.thr[t].back = "unlock",
                                             !.thr[t].pc = "sv_lock"]
    /\ UNCHANGED hist
    /\ CallerOthers

\* add_entry: the id, the entry and the insert at the head.
CallerAddEntry(t) ==
    /\ IsCall(t, "body", "hist", "add_entry")
    /\ hist' = [hist EXCEPT !.clock = @ + 1, !.adds = @ + 1,
                            !._history = <<Entry(hist.adds + 1, hist.clock + 1)>> \o @]
    /\ callers' = [callers EXCEPT !.thr[t].wrote = TRUE,
                                  !.thr[t].back = "unlock",
                                  !.thr[t].pc = "sv_lock"]
    /\ UNCHANGED cfg
    /\ CallerOthers

\* remove_entry: the search and the pop.
CallerRemoveEntry(t) ==
    /\ IsCall(t, "body", "hist", "remove_entry")
    /\ LET i == FirstWithId(hist._history, callers.thr[t].call.id)
       IN IF i = 0
          THEN /\ callers' = [callers EXCEPT !.thr[t].torn = @ \/ OtherWrites(t),
                                             !.thr[t].pc = "unlock"]
               /\ UNCHANGED hist
          ELSE /\ hist' = [hist EXCEPT !._history =
                              SubSeq(@, 1, i - 1) \o SubSeq(@, i + 1, Len(@))]
               /\ callers' = [callers EXCEPT !.thr[t].wrote = TRUE,
                                             !.thr[t].back = "unlock",
                                             !.thr[t].pc = "sv_lock"]
    /\ UNCHANGED cfg
    /\ CallerOthers

\* get_all_entries: the copy of the list.
CallerGetAllEntries(t) ==
    /\ IsCall(t, "body", "hist", "get_all_entries")
    /\ hist' = [hist EXCEPT !.returned = hist._history, !.op = "get"]
    /\ callers' = [callers EXCEPT !.thr[t].torn = @ \/ OtherWrites(t),
                                  !.thr[t].pc = "unlock"]
    /\ UNCHANGED cfg
    /\ CallerOthers

\* `with cls._lock:` of _save
CallerSaveLock(t) ==
    /\ At_pc(t, "sv_lock")
    /\ CanAcquire(callers.lock[Mgr(t)], t)
    /\ callers' = [callers EXCEPT !.lock[Mgr(t)] = Acquire(@, t),
                                  !.thr[t].pc = "sv_open"]
    /\ UNCHANGED <<cfg, hist>>
    /\ CallerOthers

\* _save: open(..., "w") empties the file.
CallerSaveOpen(t) ==
    /\ At_pc(t, "sv_open")
    /\ IF Mgr(t) = "cfg"
       THEN cfg' = [cfg EXCEPT !.file = CfgFile("partial", EmptyDict)] /\ UNCHANGED hist
       ELSE hist' = [hist EXCEPT !.file = [kind |-> "partial", list |-> <<>>]]
              /\ UNCHANGED cfg
    /\ callers' = [callers EXCEPT !.thr[t].pc = "sv_dump"]
    /\ CallerOthers

\* _save: json.dump and the close of the file.
CallerSaveDump(t) ==
    /\ At_pc(t, "sv_dump")
    /\ IF Mgr(t) = "cfg"
       THEN cfg' = [cfg EXCEPT !.file = CfgFile("dict", JsonDoc(cfg._settings))]
              /\ UNCHANGED hist
       ELSE hist' = [hist EXCEPT !.file = [kind |-> "list", list |-> hist._history]]
              /\ UNCHANGED cfg
    /\ callers' = [callers EXCEPT !.thr[t].pc = "sv_unlock"]
    /\ CallerOthers

\* the end of _save's `with`
CallerSaveUnlock(t) ==
    /\ At_pc(t, "sv_unlock")
    /\ callers' = [callers EXCEPT !.lock[Mgr(t)] = Release(@),
                                  !.thr[t].pc = callers.thr[t].back]
    /\ UNCHANGED <<cfg, hist>>
    /\ CallerOthers

\* the end of the method's `with`, and its return
CallerUnlock(t) ==
    /\ At_pc(t, "unlock")
    /\ callers' = [callers EXCEPT !.lock[Mgr(t)] = Release(@),
                                  !.thr[t].pc = "idle",
                                  !.thr[t].wrote = FALSE,
                                  !.thr[t].ops = @ + 1]
    /\ UNCHANGED <<cfg, hist>>
    /\ CallerOthers

\* ======================================================= specifications
ChannelInit ==
    /\ \E mv \in 0..MaxMaxVideos, cb \in BOOLEAN, pg \in BOOLEAN : ch = ChInit(mv, cb, pg)
    /\ CoordInit
    /\ job = JobNew
    /\ dir = DirNew({})
    /\ vi = InfoNew
    /\ hist = HistNew([kind |-> "missing", list |-> <<>>])
    /\ cfg = CfgNew(CfgFile("missing", EmptyDict))
    /\ callers = CallersNew

ChannelNext ==
    \/ ChLaunch
    \/ ChReadLine
    \/ ChStall
    \/ ChResume
    \/ ChClose
    \/ ChWait

SpecChannel == ChannelInit /\ [][ChannelNext]_vars

\* The thread running get_channel_videos keeps running, and the consumer of
\* the generator either asks for the next video or drops the generator.
\* Nothing obliges the subprocess to stall.
SpecChannelLive ==
    /\ SpecChannel
    /\ WF_vars(ChLaunch)
    /\ WF_vars(ChReadLine)
    /\ WF_vars(ChWait)
    /\ WF_vars(ChResume \/ ChClose)

JobInit ==
    /\ job = JobNew
    /\ \E old \in SUBSET (0..(MaxOldFiles - 1)) : dir = DirNew(old)
    /\ vi = InfoNew
    /\ hist = HistNew([kind |-> "missing", list |-> <<>>])
    /\ cfg = CfgNew(CfgFile("missing", EmptyDict))
    /\ callers = CallersNew
    /\ CoordInit
    /\ ch = ChInit(0, FALSE, FALSE)

JobNext ==
    \/ JobRun
    \/ JobMkdir
    \/ JobYtdlp
    \/ JobApiCheck
    \/ JobSession
    \/ JobMeta
    \/ JobHttp
    \/ JobChunk
    \/ JobFinish
    \/ JobPause
    \/ JobResume
    \/ JobCancel
    \/ JobStartNext

SpecJob == JobInit /\ [][JobNext]_vars

\* The two worker threads side by side: one VideoInfoThread and one
\* DownloadThread.
WorkersInit ==
    /\ job = JobNew
    /\ dir = DirNew({})
    /\ vi = InfoNew
    /\ hist = HistNew([kind |-> "missing", list |-> <<>>])
    /\ cfg = CfgNew(CfgFile("missing", EmptyDict))
    /\ callers = CallersNew
    /\ CoordInit
    /\ ch = ChInit(0, FALSE, FALSE)

WorkersNext ==
    \/ InfoYtdlp
    \/ InfoApiCheck
    \/ InfoSession
    \/ InfoMeta
    \/ InfoCancel
    \/ JobRun
    \/ JobMkdir
    \/ JobYtdlp
    \/ JobApiCheck
    \/ JobSession
    \/ JobMeta
    \/ JobHttp
    \/ JobChunk
    \/ JobFinish
    \/ JobPause
    \/ JobResume
    \/ JobCancel

SpecWorkers == WorkersInit /\ [][WorkersNext]_vars

\* HistoryManager and its callers.
HistoryInit ==
    /\ \E f \in FileStates : hist = HistNew(f)
    /\ cfg = CfgNew(CfgFile("missing", EmptyDict))
    /\ callers = CallersNew
    /\ CoordInit
    /\ ch = ChInit(0, FALSE, FALSE)
    /\ job = JobNew
    /\ dir = DirNew({})
    /\ vi = InfoNew

HistoryNext ==
    \/ HAddEntry
    \/ HGetAllEntries
    \/ HRemoveEntry
    \/ HClearHistory

SpecHistory == HistoryInit /\ [][HistoryNext]_vars

\* ConfigManager and its callers.
ConfigInit ==
    /\ \E f \in CfgFileStates : cfg = CfgNew(f)
    /\ callers = CallersNew
    /\ CoordInit
    /\ ch = ChInit(0, FALSE, FALSE)
    /\ job = JobNew
    /\ dir = DirNew({})
    /\ vi = InfoNew
    /\ hist = HistNew([kind |-> "missing", list |-> <<>>])

ConfigNext ==
    \/ CGet
    \/ CSet
    \/ CDelete
    \/ CResetToDefaults

SpecConfig == ConfigInit /\ [][ConfigNext]_vars

\* Threads calling the two managers.
CallersInit ==
    /\ callers = CallersNew
    /\ \E f \in {CfgFile("missing", EmptyDict), CfgFile("dict", EmptyDict)} :
          cfg = CfgNew(f)
    /\ hist = HistNew([kind |-> "list", list |-> OldEntries(1)])
    /\ CoordInit
    /\ ch = ChInit(0, FALSE, FALSE)
    /\ job = JobNew
    /\ dir = DirNew({})
    /\ vi = InfoNew

CallersNext ==
    \E t \in Callers :
        \/ CallerStart(t)
        \/ CallerLock(t)
        \/ CallerLoadLock(t)
        \/ CallerLoadRead(t)
        \/ CallerLoadAssign(t)
        \/ CallerLoadMark(t)
        \/ CallerLoadUnlock(t)
        \/ CallerGet(t)
        \/ CallerSet(t)
        \/ CallerDelete(t)
        \/ CallerAddEntry(t)
        \/ CallerRemoveEntry(t)
        \/ CallerGetAllEntries(t)
        \/ CallerSaveLock(t)
        \/ CallerSaveOpen(t)
        \/ CallerSaveDump(t)
        \/ CallerSaveUnlock(t)
        \/ CallerUnlock(t)

SpecCallers == CallersInit /\ [][CallersNext]_vars

Init == CoordInit /\ ch = ChInit(0, FALSE, FALSE) /\ job = JobNew /\ dir = DirNew({})
          /\ vi = InfoNew /\ hist = HistNew([kind |-> "missing", list |-> <<>>])
          /\ cfg = CfgNew(CfgFile("missing", EmptyDict))
          /\ callers = CallersNew
Next == CoordNext
Spec == Init /\ [][Next]_vars

\* The worker threads run on and the GUI thread's event loop delivers what is
\* queued.  Nothing obliges the user to click.
SpecLive ==
    /\ Spec
    /\ WF_vars(ThreadEmit)
    /\ WF_vars(ThreadExit)
    /\ WF_vars(DeliverFinished)
    /\ WF_vars(DeliverError)

\* ======================================================= the coordinator
Running == {j \in DOMAIN threads : threads[j].running}
QueueThreads == {j \in DOMAIN threads : threads[j].src = "queue"}
\* A signal is taken off the GUI thread's queue: the step of on_download_finished
\* or on_download_error.
DeliveryStep == events # <<>> /\ events' # events /\ Len(events') <= Len(events)
Sender == threads[Head(events).job]
\* The sender of the signal being delivered is the queue's current item.
SenderIsCurrentItem ==
    /\ Sender.src = "queue" /\ Sender.gen = app.enqueues
    /\ app.download_queue # <<>>
    /\ Sender.idx = app.current_queue_index

\* C1: at most one DownloadThread is running at any time, over any sequence of
\* enqueue, single start, finished, error and cancel events.
C1_AtMostOneRunning == Cardinality(Running) <= 1

\* C2: after one queue_downloads, with no cancellation and no further enqueue,
\* the queue's jobs are started in list order, each index once, and the job
\* for index i+1 only after the job for index i has emitted finished_signal or
\* error_signal.
C2_StrictOrder ==
    (app.enqueues = 1 /\ \A j \in DOMAIN threads : ~threads[j].cancelled) =>
        \A j \in QueueThreads :
            /\ threads[j].url = ChannelVideos[threads[j].idx + 1]
            /\ threads[j].idx = Cardinality({k \in QueueThreads : k < j})
            /\ \A k \in QueueThreads : k < j => threads[k].sig # "none"

LastOrSingle(t) == t.src = "single" \/ t.idx = t.qlen - 1

\* C4: a failure is surfaced as a user-visible error if and only if the failed
\* job is the last item of the queue or a single download.
C4_SurfacedIffLast ==
    \A j \in DOMAIN threads :
        threads[j].handled \in {"skipped", "surfaced"} =>
            (threads[j].handled = "surfaced" <=> LastOrSingle(threads[j]))

\* C5: a queue_downloads call replaces the queue that was draining: no job of
\* an earlier queue is started after a job of a later one, and the jobs of each
\* queue are started for the indexes 0, 1, 2, ... in that order, each once,
\* with the URL the queue holds at that index; the index is that of the last
\* job started for the queue in place, and the queue is emptied only once its
\* last index has been started.
StartedOf(g) == {k \in QueueThreads : threads[k].gen = g}
C5_LastEnqueueWins ==
    /\ \A j \in QueueThreads :
        /\ \A k \in QueueThreads : k < j => threads[k].gen <= threads[j].gen
        /\ threads[j].idx = Cardinality({k \in StartedOf(threads[j].gen) : k < j})
        /\ threads[j].idx < threads[j].qlen
        /\ threads[j].url = ChannelVideos[threads[j].idx + 1]
        /\ threads[j].gen <= app.enqueues
    /\ app.download_queue # <<>> =>
           Cardinality(StartedOf(app.enqueues)) = app.current_queue_index + 1
    /\ (app.download_queue = <<>> /\ app.enqueues > 0) =>
           \A j \in StartedOf(app.enqueues) :
               Cardinality(StartedOf(app.enqueues)) = threads[j].qlen

\* C5 witness: a second queue was enqueued while item 1 of a longer first
\* queue was in flight; that item's signal has since been handled, no further
\* item of the first queue was started, and items 1 and 2 of the second were.
C5_Witness ==
    /\ Len(threads) = 3
    /\ threads[1].src = "queue" /\ threads[1].gen = 1 /\ threads[1].qlen >= 2
    /\ threads[1].handled # "no"
    /\ threads[2].src = "queue" /\ threads[2].gen = 2 /\ threads[2].idx = 0
    /\ threads[3].src = "queue" /\ threads[3].gen = 2 /\ threads[3].idx = 1


\* ------------------------------------------------- get_channel_videos
\* The videos a strategy's whole output holds, in stream order.
ValidRecords(full, k) ==
    LET positions == SelectSeq([n \in 1..Len(full) |-> n], LAMBDA n : full[n] = "valid")
    IN [i \in 1..Len(positions) |-> [ap |-> k, n |-> positions[i]]]

NoneAccepted == \A k \in 1..NumApproaches : ch.accepted[k] = 0

\* C6: the strategies are tried in list order, a strategy is launched only
\* when every strategy before it yielded zero videos, and the call ends with
\* exactly the videos of the first strategy that yielded one (no later strategy
\* launched), or with none after all strategies were tried.
C6_FirstNonEmptyStrategyWins ==
    /\ Len(ch.attempts) <= NumApproaches
    /\ \A i \in 1..Len(ch.attempts) :
          /\ ch.attempts[i] = i
          /\ i < Len(ch.attempts) => ch.accepted[i] = 0
    /\ \A k \in 1..NumApproaches : k > Len(ch.attempts) => ch.accepted[k] = 0
    /\ ch.pc = "done" =>
          LET m == Len(ch.attempts) IN
          /\ ch.result = ch.videos
          /\ Len(ch.result) = ch.accepted[m]
          /\ \A i \in 1..Len(ch.result) :
                /\ ch.result[i].ap = m
                /\ ch.full[ch.result[i].n] = "valid"
                /\ i > 1 => ch.result[i - 1].n < ch.result[i].n
          /\ ch.result = <<>> => m = NumApproaches

\* Strategy 1 yielded nothing, strategy 2 yielded three videos, and the call
\* returned them without launching strategy 3.
C6_Witness ==
    /\ ch.pc = "done"
    /\ ch.attempts = <<1, 2>>
    /\ ch.accepted[1] = 0
    /\ Len(ch.result) = 3
    /\ ch.process = "exited"

\* C7: no exception leaves get_channel_videos, and when every strategy
\* yielded zero videos the call ends, after trying them all, with an empty
\* result.
C7_AllEmptyGivesEmpty ==
    /\ ~ch.raised
    /\ (ch.pc = "done" /\ NoneAccepted) =>
          /\ ch.result = <<>>
          /\ ch.attempts = [i \in 1..NumApproaches |-> i]

\* All five strategies were tried and yielded nothing, one of them abandoned
\* on an exception with its subprocess running, the last one terminated after
\* the timeout.
C7_Witness ==
    /\ ch.pc = "done"
    /\ NoneAccepted
    /\ ch.result = <<>>
    /\ Len(ch.attempts) = NumApproaches
    /\ ch.leaked > 0
    /\ ch.process = "terminated"

\* C8: when a strategy's output could be read to its end (no limit, no
\* callback raising, every line decodable), the call returns every valid
\* record of that output, in stream order, whatever unparseable lines stand
\* between them.
C8_BadLinesSkipped ==
    ( /\ ch.pc = "done"
      /\ ch.max_videos = 0
      /\ ~ch.upset
      /\ \A n \in 1..Len(ch.full) : ch.full[n] # "undecodable" )
    => ch.result = ValidRecords(ch.full, Len(ch.attempts))

\* C9: with max_videos > 0 no more than max_videos videos are collected,
\* delivered or returned, and once the count has reached max_videos no line is
\* read any more, the subprocess is terminated and the call returns the
\* strategy's videos.
C9_LimitStopsStrategy ==
    ch.max_videos > 0 =>
       /\ Len(ch.videos) <= ch.max_videos
       /\ Len(ch.delivered) <= ch.max_videos
       /\ Len(ch.result) <= ch.max_videos
       /\ ch.videos_yielded >= ch.max_videos =>
             /\ ch.pc \in {"yield", "wait", "done", "closed"}
             /\ ch.pc \in {"wait", "done", "closed"} => ch.process = "terminated"
             /\ ch.pc = "done" => ch.result = ch.videos /\ Len(ch.result) = ch.max_videos

\* ------------------------------------------------------ DownloadThread
\* The DownloadJob state a DownloadThread is in, read off its flags and the
\* signals it has emitted (the class keeps no state field).
HasEmitted(j, sig) == \E i \in 1..Len(j.signals) : j.signals[i] = sig
JobState(j) ==
    IF HasEmitted(j, "finished") THEN "Completed"
    ELSE IF HasEmitted(j, "error") THEN "Failed"
    ELSE IF j.cancelled THEN "Cancelled"
    ELSE IF j.paused THEN "Paused"
    ELSE IF HasEmitted(j, "status:downloading") THEN "Downloading"
    ELSE "Preparing"
TerminalStates == {"Completed", "Cancelled", "Failed"}
Outcomes_emitted(j) ==
    Cardinality({i \in 1..Len(j.signals) : j.signals[i] \in {"finished", "error"}})
AllowedMoves ==
    {<<"Preparing", "Downloading">>, <<"Downloading", "Paused">>, <<"Paused", "Downloading">>}
      \cup ({"Downloading", "Paused"} \X TerminalStates)

\* C10: every change of the job's state is one of Preparing -> Downloading,
\* Downloading <-> Paused, Downloading/Paused -> Completed/Cancelled/Failed, and
\* in a terminal state no step changes the state or emits a finished or error
\* signal.
C10_JobStateMachine ==
    [][ /\ JobState(job') # JobState(job) => <<JobState(job), JobState(job')>> \in AllowedMoves
        /\ JobState(job) \in TerminalStates =>
              /\ JobState(job') = JobState(job)
              /\ Outcomes_emitted(job') = Outcomes_emitted(job) ]_vars

\* C11: a job on which cancel() was first called while it was streaming
\* chunks ends without finished_signal and without error_signal, and its
\* output file does not exist.
C11_CancelMidStream ==
    (job.cancel_at = "stream" /\ job.pc = "end") =>
        /\ ~HasEmitted(job, "finished")
        /\ ~HasEmitted(job, "error")
        /\ job.file = "none"

\* C12: a job that has ended Failed or Cancelled has left no partially
\* written output file.
C12_NoPartialFile ==
    (job.pc = "end" /\ JobState(job) \in {"Failed", "Cancelled"}) => job.file # "partial"

\* C13: a job on which cancel() was called before its worker ended never
\* emits finished_signal.
C13_CancelledNeverCompletes ==
    job.cancel_at \notin {"never", "end"} => ~HasEmitted(job, "finished")

\* C14: the progress values a job emits lie in 0..100 and never decrease.
C14_ProgressMonotone ==
    \A i \in 1..Len(job.progress) :
        /\ job.progress[i] \in 0..100
        /\ i > 1 => job.progress[i - 1] <= job.progress[i]

\* C15: a job that has emitted finished_signal emitted progress 100 before
\* it, and no progress value after it.
IsProgress(sig) == sig \in {"progress", "progress:100"}
C15_Progress100BeforeFinished ==
    \A k \in 1..Len(job.signals) :
        job.signals[k] = "finished" =>
            /\ \E i \in 1..(k - 1) :
                  /\ job.signals[i] = "progress:100"
                  /\ \A m \in (i + 1)..(k - 1) : ~IsProgress(job.signals[m])
            /\ \A m \in (k + 1)..Len(job.signals) : ~IsProgress(job.signals[m])

\* A job completed on the chunked path after reporting a value below 100, and
\* cancel() was called after its last chunk.
C15_Witness ==
    /\ job.pc = "end"
    /\ HasEmitted(job, "finished")
    /\ job.cancelled
    /\ Len(job.progress) >= 2
    /\ job.progress[1] < 100
    /\ job.progress[Len(job.progress)] = 100

\* C16: the chunked download opens for writing only a file that did not exist
\* when its name was chosen, the one with the smallest free number, so two
\* downloads whose files both remain never share a file.
C16_NeverOverwrites ==
    \A i \in 1..Len(dir.opens) :
        LET o == dir.opens[i] IN
        /\ o.file \notin o.existed
        /\ \A m \in 0..(o.file - 1) : m \in o.existed
        /\ \A k \in 1..(i - 1) :
              dir.opens[k].file \in o.existed => dir.opens[k].file # o.file

\* Three downloads of the same title, one after the other, into a directory
\* that held <title><ext>: they wrote <title>_1, _2 and _3, and all four files
\* exist.
C16_Witness ==
    /\ Len(dir.opens) = 3
    /\ dir.opens[1].existed = {0}
    /\ dir.opens[1].file = 1 /\ dir.opens[2].file = 2 /\ dir.opens[3].file = 3
    /\ dir.files = 0..3
    /\ job.pc = "end" /\ job.file = "complete"

\* ------------------------------------------------------------ history
\* C19: every job whose finished_signal was handled has caused one history
\* entry, with the job's own URL; a job whose error_signal was handled, and a
\* job none of whose signals was handled, has caused none.
C19_HistoryPerCompletion ==
    \A j \in DOMAIN threads :
        /\ threads[j].handled \in {"advanced", "completed"} =>
              threads[j].recorded = threads[j].url
        /\ threads[j].handled \in {"no", "skipped", "surfaced"} =>
              threads[j].recorded = NoUrl

\* ------------------------------------------------------ the two tiers
IsTierStep(x) == x \in {"primary", "primary_ok", "secondary"}
IsSessionStep(x) == x \in {"session_ok", "session_fail", "sleep"}
Did(t, x) == \E i \in 1..Len(t.steps) : t.steps[i] = x

\* The primary extractor comes first and once; the secondary path is entered
\* at most once and only after a primary attempt that did not succeed.
TiersInOrder(t) ==
    /\ t.steps # <<>> => t.steps[1] = "primary"
    /\ SelectSeq(t.steps, IsTierStep) \in
          {<<>>, <<"primary">>, <<"primary", "primary_ok">>, <<"primary", "secondary">>}

\* C17: in DownloadThread.run and in VideoInfoThread.run the primary extractor
\* is attempted first and once, the secondary path is entered at most once,
\* only after the primary failed, and never after it succeeded.
C17_PrimaryThenSecondary == TiersInOrder(job) /\ TiersInOrder(vi)

\* The download fell back to the secondary path and went on to the request,
\* the analysis succeeded on the primary and ended.
C17_Witness ==
    /\ Did(job, "secondary") /\ Did(job, "http")
    /\ Did(vi, "primary_ok") /\ vi.pc = "end"

\* At most max_retries attempts, a sleep after a failed attempt only when
\* another attempt follows, no attempt after a success, and after the last
\* failure an error and neither metadata fetch nor download.
SessionsAsSpecified(t) ==
    LET sess == SelectSeq(t.steps, IsSessionStep) IN
    /\ sess \in {<<>>, <<"session_ok">>, <<"session_fail", "sleep">>,
                 <<"session_fail", "sleep", "session_ok">>,
                 <<"session_fail", "sleep", "session_fail">>}
    /\ sess = <<"session_fail", "sleep", "session_fail">> =>
          /\ ~Did(t, "meta") /\ ~Did(t, "http")
          /\ t.pc = "end"
          /\ \E i \in 1..Len(t.signals) : t.signals[i] = "error"
    /\ Did(t, "meta") => Did(t, "session_ok")

\* C18: the session establishment of DownloadThread and of VideoInfoThread.
C18_SessionRetries == SessionsAsSpecified(job) /\ SessionsAsSpecified(vi)

\* The download's second attempt succeeded and it fetched the metadata; both
\* attempts of the analysis failed.
C18_Witness ==
    /\ SelectSeq(job.steps, IsSessionStep) = <<"session_fail", "sleep", "session_ok">>
    /\ Did(job, "meta")
    /\ SelectSeq(vi.steps, IsSessionStep) = <<"session_fail", "sleep", "session_fail">>
    /\ vi.pc = "end"

\* ------------------------------------------------------ HistoryManager
\* What get_all_entries() would answer.
Listed(h) == Loaded(h)._history
MostRecentFirst(list) == \A i \in 1..(Len(list) - 1) : list[i].n > list[i + 1].n

\* C20: get_all_entries() lists the entries most recent first, and an
\* add_entry has put its entry at the head, before the entries listed until
\* then, which keep their order.
C20_MostRecentFirst ==
    /\ MostRecentFirst(Listed(hist))
    /\ hist.op = "get" => hist.returned = Listed(hist)
    /\ hist.op = "add" =>
          /\ Listed(hist) # <<>>
          /\ Head(Listed(hist)).n = hist.adds
          /\ Head(Listed(hist)).id = hist.returned[1]

\* Three entries were added to a history of two, the middle one of the five
\* was removed, and get_all_entries answered the other four, newest first.
C20_Witness ==
    /\ hist.op = "get"
    /\ Len(hist.returned) = 4
    /\ hist.returned[1].n = MaxOldEntries + 3
    /\ hist.returned[2].n = MaxOldEntries + 2
    /\ hist.returned[3].n = 2
    /\ hist.returned[4].n = 1

HasId(list, id) == \E i \in 1..Len(list) : list[i].id = id

\* C21: remove_entry(id) for an id the history holds returns True, and
\* afterwards get_all_entries() holds no entry with that id; for an id it
\* does not hold, it returns False and leaves the list and the file as they
\* were.
C21_RemoveEntry ==
    [][hist'.op = "remove" =>
          IF HasId(Listed(hist), hist'.arg)
          THEN /\ hist'.returned = <<TRUE>>
               /\ ~HasId(Listed(hist'), hist'.arg)
          ELSE /\ hist'.returned = <<FALSE>>
               /\ Listed(hist') = Listed(hist)
               /\ hist'.file = hist.file]_vars

IdsStrictlyDecrease(list) == \A i \in 1..(Len(list) - 1) : list[i].id > list[i + 1].id

\* C22: in a history that was empty at the start and has seen only add_entry
\* calls, the ids are pairwise distinct and strictly decrease from head to
\* tail.
C22_IdsUniqueAndOrdered ==
    (hist._loaded /\ hist.only_adds) =>
        /\ \A i, k \in 1..Len(hist._history) :
               i # k => hist._history[i].id # hist._history[k].id
        /\ IdsStrictlyDecrease(hist._history)

\* -------------------------------------------------------- ConfigManager
\* The document the store answers from: _settings, after the lazy load when
\* the store is not loaded yet.
CfgDoc(c) == CfgLoaded(c, "unwritable")._settings

FreshGet(c, key) == get(CfgNew(c.file), key, Null, "unwritable").returned
InMemory(c, key) == Walk(Map(c._settings), key, Null)

\* C24 as stated: after a set(path, v) of any non-null v whose save
\* succeeded, a fresh store that loads the file answers get(path) = v, and
\* every other path that had a value answers that value.
C24_RoundTrip ==
    (cfg.op = "set" /\ cfg.saved = "saved" /\ cfg.value # Null) =>
        /\ FreshGet(cfg, cfg.key) = cfg.value
        /\ \A p \in CfgPaths :
              InMemory(cfg, p) # Null => FreshGet(cfg, p) = InMemory(cfg, p)

\* C24 amended: the same for the values JSON gives back as they were written
\* (a tuple comes back as a list).
C24_RoundTripOfJsonValues ==
    (cfg.op = "set" /\ cfg.saved = "saved" /\ cfg.value # Null) =>
        /\ Json(cfg.value) = cfg.value => FreshGet(cfg, cfg.key) = cfg.value
        /\ \A p \in CfgPaths :
              (InMemory(cfg, p) # Null /\ Json(InMemory(cfg, p)) = InMemory(cfg, p))
                  => FreshGet(cfg, p) = InMemory(cfg, p)

\* set("extra.ytdlp.version", "vi") was saved after an earlier set of
\* language, and a fresh store answers both.
C24_Witness ==
    /\ cfg.op = "set"
    /\ cfg.saved = "saved"
    /\ cfg.calls = 2
    /\ cfg.key = <<"extra", "ytdlp", "version">>
    /\ cfg.value = Val("vi")
    /\ FreshGet(cfg, cfg.key) = Val("vi")
    /\ InMemory(cfg, <<"language", "ytdlp">>) = Val("vi")
    /\ FreshGet(cfg, <<"language", "ytdlp">>) = Val("vi")

\* C25: set(path, v) never raises; afterwards every proper prefix of the path
\* leads to a mapping and get(path) answers v; a mapping that was already
\* there along the path keeps its other keys, and where there was none (or a
\* scalar) there is a new mapping that holds the next segment alone.
C25_SetCreatesPath ==
    [][cfg'.op = "set" =>
          LET key == cfg'.key
              before == Map(CfgDoc(cfg))
              after == Map(cfg'._settings)
          IN /\ ~cfg'.raised
             /\ At(after, key) = cfg'.value
             /\ InMemory(cfg', key) = cfg'.value
             /\ \A n \in 0..(Len(key) - 1) :
                   LET old == At(before, Prefix(key, n))
                       new == At(after, Prefix(key, n))
                   IN /\ new.t = "map"
                      /\ IF old.t = "map"
                         THEN /\ DOMAIN new.m = DOMAIN old.m \cup {key[n + 1]}
                              /\ \A k \in DOMAIN old.m \ {key[n + 1]} :
                                    new.m[k] = old.m[k]
                         ELSE DOMAIN new.m = {key[n + 1]}]_vars

\* set("language.ytdlp", v) replaced the scalar at language by a mapping that
\* holds ytdlp alone, and left cached_versions as it was.
C25_Witness ==
    /\ cfg.op = "set"
    /\ cfg.key = <<"language", "ytdlp">>
    /\ cfg.value = Val("vi")
    /\ cfg._settings["language"] = Map([k \in {"ytdlp"} |-> Val("vi")])
    /\ cfg._settings["cached_versions"] = DefaultConfig["cached_versions"]

C27_FailedSaveKeepsMemory ==
    [][(cfg.dirty /\ cfg'.op = "get") =>
          /\ cfg'._settings = cfg._settings
          /\ cfg'.returned = Walk(Map(cfg._settings), cfg'.key, cfg'.default)]_vars

\* ------------------------------------------- callers of the two managers
\* The thread is inside a method's `with cls._lock:` block.
Inside(t) == callers.thr[t].pc \notin {"idle", "lock"}
\* The thread is inside _save's `with cls._lock:` block.
InSave(t) == callers.thr[t].pc \in {"sv_open", "sv_dump", "sv_unlock"}
\* What get("extra") may answer: nothing, or the whole of what
\* set("extra.ytdlp.version", "vi") builds.
WholeAnswers ==
    {Null, Map([y \in {"ytdlp"} |-> Map([v \in {"version"} |-> Val("vi")])])}

\* C28: with several threads calling get/set/delete and
\* add_entry/remove_entry/get_all_entries, no two threads are inside methods
\* of the same manager at once, its lazy load and its save included: no call
\* reads while another has written and not returned, get never answers a
\* half-built mapping, no two saves of a file overlap, a file is empty or
\* half-written only while its one writer is writing, and each file is
\* loaded at most once.
C28_OperationsAtomic ==
    /\ \A t, u \in Callers : (t # u /\ Inside(t) /\ Inside(u)) => Mgr(t) # Mgr(u)
    /\ \A t \in Callers : ~callers.thr[t].torn
    /\ cfg.op = "get" => cfg.returned \in WholeAnswers
    /\ \A t, u \in Callers : (t # u /\ InSave(t) /\ InSave(u)) => Mgr(t) # Mgr(u)
    /\ cfg.file.kind = "partial" => \E t \in Callers : At_pc(t, "sv_dump") /\ Mgr(t) = "cfg"
    /\ hist.file.kind = "partial" => \E t \in Callers : At_pc(t, "sv_dump") /\ Mgr(t) = "hist"
    /\ \A m \in {"cfg", "hist"} : callers.loads[m] <= 1

\* One thread is inside set, holds the lock and has made the mapping at
\* "extra" but not yet the one below it, while another has called get and
\* waits for the lock.
C28_Witness ==
    \E t, u \in Callers :
        /\ IsCall(t, "body", "cfg", "set")
        /\ At(Map(cfg._settings), <<"extra">>) = Map(EmptyDict)
        /\ IsCall(u, "lock", "cfg", "get")
        /\ callers.lock["cfg"].owner = t

\* ------------------------------------- get_channel_videos: what is delivered
\* C29: the videos handed to video_callback (or to the consumer of the
\* generator) all come from one strategy, each stands for a line of that
\* strategy's output that has a url, they come in the order of the lines and
\* none comes twice; and when the call returns, the returned list is that
\* sequence.
C29_DeliveredIsReturned ==
    /\ \A i \in 1..Len(ch.delivered) :
          /\ ch.delivered[i].ap = Len(ch.attempts)
          /\ ch.delivered[i].n \in 1..Len(ch.full)
          /\ ch.full[ch.delivered[i].n] = "valid"
          /\ i > 1 => ch.delivered[i - 1].n < ch.delivered[i].n
    /\ (ch.pc = "done" /\ ~ch.raised) => ch.delivered = ch.result

\* The second strategy's output had a line without url between two videos:
\* the callback got the two videos, and the call returned the two.
C29_Witness ==
    /\ ch.pc = "done"
    /\ ch.use_callback
    /\ ch.attempts = <<1, 2>>
    /\ ch.full = <<"valid", "nourl", "valid">>
    /\ Len(ch.delivered) = 2
    /\ ch.delivered[2].n = 3
    /\ ch.delivered = ch.result

\* ------------------------------------------------- DownloadThread.cancel
\* C30: cancel() in any state of the job: it does not raise and leaves the
\* worker where it is; on a job already cancelled it changes nothing; on a job
\* in a terminal state it changes neither the state nor the signals emitted
\* nor the output file.
C30_CancelAnytime ==
    [][JobCancel =>
          /\ ~job'.raised
          /\ job'.cancelled
          /\ job'.pc = job.pc
          /\ job.cancelled => [job' EXCEPT !.calls = job.calls] = job
          /\ JobState(job) \in TerminalStates =>
                /\ JobState(job') = JobState(job)
                /\ job'.signals = job.signals
                /\ job'.file = job.file
                /\ job'.output_file = job.output_file
                /\ dir' = dir]_vars

\* cancel() was first called when the job had completed, with other calls
\* before or after it: the job is Completed and its file is there.
C30_Witness ==
    /\ job.cancel_at = "end"
    /\ job.calls >= 2
    /\ ~job.paused
    /\ JobState(job) = "Completed"
    /\ job.file = "complete"
    /\ ~job.raised

\* ------------------------------------------------------------------ C31
\* An address attribute provides a URL when it exists and holds one.
Provides(video_data, name) == hasattr(video_data, name) /\ video_data[name] \notin {NoDownloadUrl, NoAddr}
\* The fallback path ended with error_signal right after looking at the
\* fetched metadata.
ResolutionFailed(j) ==
    /\ j.video_data.video # "not_fetched"
    /\ j.pc = "end"
    /\ j.steps[Len(j.steps)] = "meta"
    /\ HasEmitted(j, "error")

\* C31: on the secondary path the media URL is downloadAddr when both fields
\* provide a URL, playAddr when only playAddr provides one, and the resolution
\* fails with an error only when neither field provides a URL.
C31_MediaUrlPreference ==
    job.video_data.video # "not_fetched" =>
        LET d == Provides(job.video_data, "downloadAddr")
            p == Provides(job.video_data, "playAddr")
        IN /\ d /\ p => job.download_url = job.video_data.downloadAddr
           /\ ~d /\ p => job.download_url = job.video_data.playAddr
           /\ ResolutionFailed(job) => ~d /\ ~p

\* ------------------------------------------------------------------ C32
\* get_channel_videos has returned, raised, or its generator was closed.
ChEnded == ch.pc \in {"done", "closed"}

\* C32: every get_channel_videos call eventually ends, whatever the
\* subprocess writes to its standard output and standard error.
C32_CallEnds == <>ChEnded

\* ------------------------------------------------------------------ C34
\* Subprocesses of this call that are running: those the code moved on from
\* without waiting for or terminating them, and the one it is reading from.
SubprocessesAlive(c) ==
    c.leaked + (IF c.process = "alive" /\ c.pc \in {"read", "yield"} THEN 1 ELSE 0)

\* C34: at most one extraction subprocess is alive at a time, also after a
\* strategy was abandoned because of an exception, and none is left running
\* when the call has returned.
C34_OneSubprocessAtATime ==
    /\ SubprocessesAlive(ch) <= 1
    /\ ch.pc = "done" => SubprocessesAlive(ch) = 0

\* ------------------------------------------------------------------ C33
\* A job that has yet to emit its terminal signal.
Active(t) == t.running /\ t.sig = "none"
\* Every started job has emitted finished_signal or error_signal.
EveryJobEmitted == \A j \in DOMAIN threads : threads[j].sig # "none"
\* The jobs of queue g whose signal made the coordinator report the end of the
\* queue: the completion, or the error of the last item.
Reports(g) ==
    {j \in QueueThreads : threads[j].gen = g /\ threads[j].handled \in {"completed", "surfaced"}}
\* The queue in force has been drained: the coordinator is idle, every URL of
\* the queue was started, and its end was reported once.
QueueDrained ==
    /\ app.enqueues > 0
    /\ app.current_download = None /\ events = <<>> /\ app.download_btn
    /\ \E j \in QueueThreads :
          /\ threads[j].gen = app.enqueues
          /\ \A i \in 0..(threads[j].qlen - 1) :
                \E k \in QueueThreads : threads[k].gen = app.enqueues /\ threads[k].idx = i
    /\ Cardinality(Reports(app.enqueues)) = 1
\* The next delivery would start a job beyond the bound on jobs.
JobsExhausted ==
    /\ events # <<>>
    /\ LET w == Delivered IN
       /\ w.app.download_queue # <<>>
       /\ w.app.current_queue_index < Len(w.app.download_queue) - 1
       /\ ~Room(w)
\* current_download is cleared.
ControlsReset == app.current_download # None /\ app'.current_download = None

\* C33: if every started job eventually emits finished_signal or error_signal,
\* then after queue_downloads the coordinator eventually is idle with every URL
\* of the queue attempted and the end of the queue reported exactly once, and
\* the controls are reset only when no job is running.
C33_QueueDrains ==
    /\ <>[]EveryJobEmitted => ((app.enqueues > 0) ~> (QueueDrained \/ JobsExhausted))
    /\ [](\A g \in 1..MaxEnqueues : Cardinality(Reports(g)) <= 1)
    /\ [][ControlsReset => \A j \in DOMAIN threads' : ~Active(threads'[j])]_vars

\* ------------------------------------------------------------------ C35
\* A DownloadThread is created by the step.
JobStarted == Len(threads') = Len(threads) + 1
NewJob == threads'[Len(threads')]
\* The step is the queue_downloads call that installed the new job's queue.
ByOwnEnqueue == app'.enqueues = app.enqueues + 1 /\ NewJob.gen = app'.enqueues /\ NewJob.idx = 0
\* The step delivers the terminal signal of the job before the new one in the
\* same queue.
ByPrecedingJob ==
    /\ DeliveryStep
    /\ Sender.src = "queue" /\ Sender.gen = NewJob.gen /\ Sender.idx = NewJob.idx - 1

\* C35: a URL of a queue is started only by that queue's own queue_downloads
\* call or by the finished/error signal of the queue's preceding job; after a
\* cancel the rest of the queue is never started, in particular not by the
\* completion of a single download.
C35_QueueStartedOnlyByItself ==
    [][JobStarted /\ NewJob.src = "queue" => ByOwnEnqueue \/ ByPrecedingJob]_vars

\* ------------------------------------------------------------------ C36
\* The terminal signals among what a worker has emitted.
Terminals(signals) == {i \in DOMAIN signals : signals[i] \in {"finished", "error"}}
\* cancel() was called before run emitted a terminal signal or returned.
CancelledRun(j) == j.cancelled /\ j.cancel_at # "end"

\* C36: a DownloadThread.run that is not cancelled emits exactly one terminal
\* signal, finished_signal or error_signal, on every path; a cancelled run
\* emits neither.
C36_OneTerminalSignal ==
    /\ Cardinality(Terminals(job.signals)) <= 1
    /\ job.pc = "end" /\ ~CancelledRun(job) => Cardinality(Terminals(job.signals)) = 1
    /\ CancelledRun(job) => Terminals(job.signals) = {}

\* ------------------------------------------------------------------ C37
\* C37: a VideoInfoThread.run that is not cancelled emits exactly one of
\* video_info_signal and error_signal and then finished_signal exactly once, on
\* every path, so that on_video_info_finished clears the analysing state.
C37_InfoThenFinished ==
    vi.pc = "end" /\ ~vi.cancelled =>
        /\ Len(vi.signals) = 2
        /\ vi.signals[1] \in {"video_info", "error"}
        /\ vi.signals[2] = "finished"

\* ------------------------------------------------------------------ C38
\* The default keys, at every nesting level.
DefaultPaths ==
    { <<"language">>, <<"proxy_url">>, <<"cached_versions">>,
      <<"cached_versions", "ytdlp">>, <<"cached_versions", "ytdlp", "version">>,
      <<"cached_versions", "ytdlp", "last_check">> }
\* The step is a reset_to_defaults of a store that set, delete or get has
\* loaded.
ResetStep == cfg._loaded /\ cfg'.op = "reset" /\ cfg'.calls = cfg.calls + 1

\* C38: after any sequence of set and delete calls, also on nested paths below
\* a default key, reset_to_defaults restores the documented defaults: get
\* answers the original default for every default key at every nesting level,
\* and a second reset gives the same document as the first.
C38_ResetRestoresDefaults ==
    [][ResetStep =>
          /\ \A key \in DefaultPaths, default \in CfgDefaults :
                get(cfg', key, default, "none").returned
                    = Walk(Map(DefaultConfig), key, default)
          /\ \A out \in SaveOutcomes :
                reset_to_defaults(cfg', out)._settings = cfg'._settings]_vars

\* ------------------------------------------------------------------ C39
\* C39: after clear_history, get_all_entries returns the empty sequence until
\* the next add_entry, whether or not the history was loaded before the call
\* and whether or not the save succeeded.
C39_ClearedStaysEmpty ==
    hist.cleared /\ hist.op = "get" => hist.returned = <<>>

=============================================================================
